---- MODULE Spec2Model ----
(***************************************************************************)
(* State-machine model of JustD3D12Compute (src/src/core.cpp): the         *)
(* command-list lifecycle (Recording -> Executing -> Idle), the resource   *)
(* usage tracker, the binding cache, the two descriptor heaps and the      *)
(* fence / completion-event protocol of class DeviceImpl, together with    *)
(* an asynchronous GPU that executes submitted command lists in order.     *)
(*                                                                         *)
(* Every public operation of DeviceImpl is one action.  The body of a      *)
(* handler is written as a function from a device snapshot (the record     *)
(* Dev) to a new snapshot and a Result, so that the sequential code with   *)
(* its early returns can be followed line by line.                         *)
(***************************************************************************)
EXTENDS Integers, Sequences, FiniteSets, TLC

\* ------------------------------------------------------------------------
\* Bounds of the model
\* ------------------------------------------------------------------------
MaxFence == 2
MaxCmds == 3
MaxVal == 1

\* ------------------------------------------------------------------------
\* Result codes (include/jd3d12/utils.hpp).  Result is int32_t.
\* ------------------------------------------------------------------------
kSuccess == 0
kFalse == 1
kNotReady == 557645825
kErrorTooManyObjects == -1589837823
kErrorFail == -2147467259
kErrorInvalidArgument == -2147024809
kErrorUnexpected == -2147418113

Succeeded(res) == res >= 0
Failed(res) == res < 0

\* uint32_t patterns 0xFFFFFFFF, written as the 32-bit two's complement value.
kTimeoutInfinite == -1
UINT32_MAX == -1
UINT16_MAX == 65535
\* size_t arithmetic is unsigned and wraps; the model keeps SIZE_BITS bits.
SIZE_BITS == 30
SIZE_MOD == 2 ^ SIZE_BITS
SIZE_MAX == SIZE_MOD - 1
SizeT(x) == x % SIZE_MOD

kCommandFlagDontWait == 1

kMaxDescriptorCount == 65536
kStaticDescriptorCount == 3
kMaxCBVCount == 16
kMaxSRVCount == 16
kMaxUAVCount == 8
D3D12_CONSTANT_BUFFER_DATA_PLACEMENT_ALIGNMENT == 256

NULL == "nullptr"

\* ------------------------------------------------------------------------
\* Range, LimitRange (include/jd3d12/utils.hpp)
\* ------------------------------------------------------------------------
Range(first, count) == [first |-> first, count |-> count]
kEmptyRange == Range(0, 0)
kFullRange == Range(0, SIZE_MAX)

LimitRange(range, real_size) ==
    IF range.count = SIZE_MAX
    THEN [range EXCEPT !.count = SizeT(real_size - range.first)]
    ELSE range

\* ------------------------------------------------------------------------
\* Buffers.  The buffers of the model are created before the first step,
\* each with the usage flags of one of the buffers of tests/test_main.cpp.
\* ------------------------------------------------------------------------
kBufferUsageMaskCpu == {"CpuRead", "CpuSequentialWrite", "CpuRandomAccess"}
kBufferUsageMaskCopy == {"CopySrc", "CopyDst"}
kBufferUsageMaskShader == {"ShaderConstant", "ShaderResource", "ShaderRWResource"}
kBufferTypeMask == {"Typed", "Structured", "ByteAddress"}

CountBitsSet(flags) == Cardinality(flags)

Buffers == {"U", "D", "R", "C", "W"}

\* The compute shader the dispatches run.
Shaders == {"S"}

BufferDesc(b) ==
    CASE b = "U" -> [flags |-> {"CpuSequentialWrite", "CopySrc", "ShaderResource", "ByteAddress"},
                     size |-> 8, element_bits |-> 0, structure_size |-> 0]
      [] b = "D" -> [flags |-> {"CopySrc", "CopyDst", "ShaderResource", "ShaderRWResource", "Typed"},
                     size |-> 8, element_bits |-> 32, structure_size |-> 0]
      [] b = "R" -> [flags |-> {"CpuRead", "CopyDst"},
                     size |-> 8, element_bits |-> 0, structure_size |-> 0]
      [] b = "C" -> [flags |-> {"CpuSequentialWrite", "ShaderConstant"},
                     size |-> 256, element_bits |-> 0, structure_size |-> 0]
      [] b = "W" -> [flags |-> {"CpuSequentialWrite", "ShaderRWResource", "ByteAddress"},
                     size |-> 8, element_bits |-> 0, structure_size |-> 0]

GetSize(b) == BufferDesc(b).size
GetFlags(b) == BufferDesc(b).flags

\* BufferImpl::GetElementSize for a buffer with descriptor desc; element_bits is
\* FormatDesc::bits_per_element of desc.element_format, 0 for Format::kUnknown.
ElementSizeOf(desc) ==
    IF "Typed" \in desc.flags
    THEN (IF desc.element_bits % 8 = 0 THEN desc.element_bits \div 8 ELSE 0)
    ELSE IF "Structured" \in desc.flags THEN desc.structure_size
    ELSE IF "ByteAddress" \in desc.flags THEN 4
    ELSE 0

GetElementSize(b) == ElementSizeOf(BufferDesc(b))

\* BufferImpl::InitParameters, "Choose strategy."
ChooseStrategy(flags) ==
    IF "ShaderRWResource" \in flags THEN "kDefault"
    ELSE IF "CpuSequentialWrite" \in flags THEN "kUpload"
    ELSE IF "CpuRead" \in flags THEN "kReadback"
    ELSE "kDefault"

strategy_(b) == ChooseStrategy(GetFlags(b))

\* BufferImpl::Init maps the resource persistently for these strategies.
HasPersistentlyMappedPtr(b) == strategy_(b) \in {"kUpload", "kGpuUpload", "kReadback"}

Words(b) == 0 .. (GetSize(b) \div 4) - 1
Values == 0 .. MaxVal

\* ------------------------------------------------------------------------
\* State
\* ------------------------------------------------------------------------
VARIABLES
    command_list_state_,      \* DeviceImpl::command_list_state_
    submitted_fence_value_,   \* DeviceImpl::submitted_fence_value_
    fence_completed,          \* fence_->GetCompletedValue()
    fence_event_,             \* auto-reset event: TRUE when signaled
    event_regs,               \* fence values with a pending SetEventOnCompletion
    resource_usage_map_,      \* buffer -> ResourceUsage (used = has an entry)
    is_user_mapped_,          \* buffer -> BufferImpl::is_user_mapped_
    vis_next,                 \* shader_visible_descriptor_heap_.next_dynamic_descriptor_index_
    invis_next,               \* shader_invisible_descriptor_heap_.next_dynamic_descriptor_index_
    cbv_bindings_,            \* binding_state_.cbv_bindings_
    srv_bindings_,            \* binding_state_.srv_bindings_
    uav_bindings_,            \* binding_state_.uav_bindings_
    cmd_list,                 \* commands recorded into command_list_ since its last Reset
    list_closed,              \* command_list_ has been Close()d and not Reset
    gpu_queue,                \* command lists submitted to command_queue_, not yet executed
    mem,                      \* buffer -> contents, one value per 32-bit word
    state_trace,              \* the lifecycle calls of the last operation: what each returned
                              \* and the command_list_state_ before and after it
    asserted,                 \* a JD3D12_ASSERT of the last operation found its condition false
    blocked,                  \* the last operation slept in WaitForSingleObject
    last_op,                  \* the last operation and its arguments
    result,                   \* the Result it returned
    read_out,                 \* bytes ReadBufferToMemory copied to dst_memory
    live_buffers,             \* the buffers that have not been destroyed
    buffer_count_,            \* DeviceImpl::buffer_count_
    device_alive,             \* ~DeviceImpl has not run
    vis_heap,                 \* the descriptors of the shader-visible heap, by index: the
                              \* static ones and those written since the last ClearDynamic
                              \* (what the dynamic region held before is no valid descriptor)
    shader_usage_set_,        \* DeviceImpl::shader_usage_set_
    live_shaders,             \* the shaders that have not been destroyed
    shader_count_,            \* DeviceImpl::shader_count_
    created,                  \* arguments and outcome of the last CreateBufferFromMemory
    round_trip                \* progress and arguments of a write / copy / read-back sequence

devvars == <<command_list_state_, submitted_fence_value_, fence_completed, fence_event_,
             event_regs, resource_usage_map_, is_user_mapped_, vis_next, invis_next,
             cbv_bindings_, srv_bindings_, uav_bindings_, cmd_list, list_closed,
             gpu_queue, mem, live_buffers, buffer_count_, device_alive,
             shader_usage_set_, live_shaders, shader_count_, vis_heap>>
vars == <<devvars, state_trace, asserted, blocked, last_op, result, read_out, round_trip,
          created>>

NoUsage == [used |-> FALSE, flags |-> {}, last_state |-> "COMMON"]
EmptyBinding == [buffer |-> NULL, byte_range |-> kFullRange, descriptor_index |-> UINT32_MAX]

\* The device snapshot the handlers work on.
Dev ==
    [cls |-> command_list_state_, submitted |-> submitted_fence_value_,
     completed |-> fence_completed, event |-> fence_event_, regs |-> event_regs,
     usage |-> resource_usage_map_, mapped |-> is_user_mapped_,
     vis |-> vis_next, invis |-> invis_next,
     cbv |-> cbv_bindings_, srv |-> srv_bindings_, uav |-> uav_bindings_,
     cmds |-> cmd_list, closed |-> list_closed, queue |-> gpu_queue, mem |-> mem,
     live |-> live_buffers, count |-> buffer_count_, alive |-> device_alive,
     created |-> created,
     shader_set |-> shader_usage_set_, shaders |-> live_shaders,
     shader_count |-> shader_count_, heap |-> vis_heap,
     trace |-> <<>>, asserted |-> FALSE, blocked |-> FALSE,
     out |-> <<>>]

Commit(d) ==
    /\ command_list_state_' = d.cls
    /\ submitted_fence_value_' = d.submitted
    /\ fence_completed' = d.completed
    /\ fence_event_' = d.event
    /\ event_regs' = d.regs
    /\ resource_usage_map_' = d.usage
    /\ is_user_mapped_' = d.mapped
    /\ vis_next' = d.vis
    /\ invis_next' = d.invis
    /\ cbv_bindings_' = d.cbv
    /\ srv_bindings_' = d.srv
    /\ uav_bindings_' = d.uav
    /\ cmd_list' = d.cmds
    /\ list_closed' = d.closed
    /\ gpu_queue' = d.queue
    /\ mem' = d.mem
    /\ live_buffers' = d.live
    /\ buffer_count_' = d.count
    /\ device_alive' = d.alive
    /\ created' = d.created
    /\ shader_usage_set_' = d.shader_set
    /\ live_shaders' = d.shaders
    /\ shader_count_' = d.shader_count
    /\ vis_heap' = d.heap
    /\ state_trace' = d.trace
    /\ asserted' = d.asserted
    /\ blocked' = d.blocked
    /\ read_out' = d.out

Ret(d, res) == [d |-> d, res |-> res]

\* JD3D12_ASSERT(expr): assert() aborts a debug build; with NDEBUG the code
\* goes on.  The model goes on and remembers that the assertion failed.
JD3D12_ASSERT(d, ok) == IF ok THEN d ELSE [d EXCEPT !.asserted = TRUE]

SetState(d, s) == [d EXCEPT !.cls = s]

\* The call fn, entered with the device d0, returned r.
Traced(fn, d0, r) ==
    Ret([r.d EXCEPT !.trace = Append(@, [fn |-> fn, from |-> d0.cls, to |-> r.d.cls,
                                         res |-> r.res])], r.res)

\* ------------------------------------------------------------------------
\* Native calls that can fail, and the timing of the GPU, are inputs of an
\* operation: o.fail names the native call that fails ("none": no failure),
\* o.gpu_done says whether the GPU reaches the fence within a bounded
\* timeout, o.reset_ok is the outcome of resetting the allocator while a
\* list recorded from it is still in flight.
\* ------------------------------------------------------------------------
FailPoints == {"none", "Close", "Signal", "SetEventOnCompletion", "Wait", "Reset"}
Oracle(fail, gpu_done, reset_ok) == [fail |-> fail, gpu_done |-> gpu_done, reset_ok |-> reset_ok]

\* ------------------------------------------------------------------------
\* The GPU: executes the submitted lists in order; each list is followed by
\* the Signal of its fence value (0: no Signal was enqueued).
\* ------------------------------------------------------------------------
Cmd(op) == [op |-> op, buf |-> NULL, src |-> NULL, first |-> 0, count |-> 0, off |-> 0,
            data |-> <<>>, before |-> "", after |-> "", uavs |-> {}, shader |-> NULL]

\* The value an unordered-access write of the test shaders leaves (x -> f(x)).
ShaderOut(v) == (v + 1) % (MaxVal + 1)

InWords(b, w) == w \in Words(b)

ExecCopy(m, c) ==
    LET n == c.count \div 4
        s0 == c.first \div 4
        d0 == c.off \div 4
    IN [m EXCEPT ![c.buf] =
           [w \in Words(c.buf) |->
               IF w >= d0 /\ w < d0 + n /\ InWords(c.src, s0 + (w - d0))
               THEN m[c.src][s0 + (w - d0)]
               ELSE m[c.buf][w]]]

ExecWrite(m, c) ==
    LET d0 == c.off \div 4 IN
    [m EXCEPT ![c.buf] =
        [w \in Words(c.buf) |->
            IF w >= d0 /\ w < d0 + Len(c.data) THEN c.data[w - d0 + 1] ELSE m[c.buf][w]]]

ExecClear(m, c) ==
    LET es == IF GetElementSize(c.buf) = 0 THEN 4 ELSE GetElementSize(c.buf)
        w0 == (c.first * es) \div 4
        n == (c.count * es) \div 4
    IN [m EXCEPT ![c.buf] =
           [w \in Words(c.buf) |-> IF w >= w0 /\ w < w0 + n THEN c.data[1] ELSE m[c.buf][w]]]

InUavRange(c, b, w) ==
    \E u \in c.uavs : u.buffer = b /\ 4 * w >= u.first /\ 4 * w < u.first + u.count

ExecDispatch(m, c) ==
    [b \in Buffers |-> [w \in Words(b) |->
        IF InUavRange(c, b, w) THEN ShaderOut(m[b][w]) ELSE m[b][w]]]

ExecCmd(m, c) ==
    CASE c.op \in {"CopyBufferRegion", "CopyResource"} -> ExecCopy(m, c)
      [] c.op = "WriteBufferImmediate" -> ExecWrite(m, c)
      [] c.op = "ClearUnorderedAccessView" -> ExecClear(m, c)
      [] c.op = "Dispatch" -> ExecDispatch(m, c)
      [] OTHER -> m

RECURSIVE ExecCmds(_, _)
ExecCmds(m, cmds) ==
    IF cmds = <<>> THEN m ELSE ExecCmds(ExecCmd(m, Head(cmds)), Tail(cmds))

\* One list of the queue runs to its end and its fence value is signaled;
\* every registration the fence has now reached sets the event.
GpuStep(d) ==
    LET item == Head(d.queue)
        done == IF item.fence > d.completed THEN item.fence ELSE d.completed
        fired == {v \in d.regs : v <= done}
    IN [d EXCEPT !.queue = Tail(@),
                 !.mem = ExecCmds(@, item.cmds),
                 !.completed = done,
                 !.regs = @ \ fired,
                 !.event = @ \/ fired # {}]

\* The GPU runs while the CPU thread sleeps on the event.
RECURSIVE RunGpuUntilEvent(_)
RunGpuUntilEvent(d) ==
    IF d.event \/ d.queue = <<>> THEN d ELSE RunGpuUntilEvent(GpuStep(d))

\* A variant that registers nothing when the fence has yet to reach the value.
SetEventOnCompletion_NoRegistration(d, value) ==
    IF d.completed >= value THEN [d EXCEPT !.event = TRUE] ELSE d

\* ID3D12Fence::SetEventOnCompletion: sets the event at once when the fence
\* has already reached the value, else registers it.
SetEventOnCompletion(d, value) ==
    IF d.completed >= value THEN [d EXCEPT !.event = TRUE]
    ELSE [d EXCEPT !.regs = @ \cup {value}]

\* ------------------------------------------------------------------------
\* Command-list lifecycle (core.cpp 1753-1828)
\* ------------------------------------------------------------------------
\* A variant that marks the list Executing before the fence signal is known to
\* have succeeded.
ExecuteRecordedCommands_StateBeforeSignal(d0, o) ==
    LET d1 == [d0 EXCEPT !.closed = TRUE,
                         !.queue = Append(@, [cmds |-> d0.cmds, fence |-> 0]),
                         !.submitted = @ + 1]
    IN Traced("ExecuteRecordedCommands", d0,
           IF o.fail = "Close" \/ d0.closed THEN Ret(d0, kErrorFail)
           ELSE IF o.fail = "Signal" THEN Ret(SetState(d1, "kExecuting"), kErrorFail)
           ELSE Ret(SetState([d1 EXCEPT !.queue[Len(d1.queue)].fence = d1.submitted],
                             "kExecuting"), kSuccess))

ExecuteRecordedCommands(d0, o) ==
    LET d == JD3D12_ASSERT(d0, d0.cls = "kRecording")
        d1 == [d EXCEPT !.closed = TRUE,
                        !.queue = Append(@, [cmds |-> d.cmds, fence |-> 0]),
                        !.submitted = @ + 1]
    IN Traced("ExecuteRecordedCommands", d0,
           IF o.fail = "Close" \/ d.closed THEN Ret(d, kErrorFail)
           ELSE IF o.fail = "Signal" THEN Ret(d1, kErrorFail)
           ELSE Ret(SetState([d1 EXCEPT !.queue[Len(d1.queue)].fence = d1.submitted],
                             "kExecuting"), kSuccess))

\* A variant that keeps the tracker when the list has finished.
WaitForCommandExecution_Done_KeepsTracker(d) == SetState(d, "kNone")

WaitForCommandExecution_Done(d) ==
    SetState([d EXCEPT !.usage = [b \in Buffers |-> NoUsage], !.shader_set = {}], "kNone")

\* WaitForSingleObject on the auto-reset event: returns at once when the event
\* is signaled; times out at once with timeout 0, and with a bounded timeout
\* the GPU does not meet; else the thread sleeps while the GPU runs.
WaitForCommandExecution(d0, timeout_milliseconds, o) ==
    LET d == JD3D12_ASSERT(d0, d0.cls = "kExecuting")
        d1 == SetEventOnCompletion(d, d.submitted)
        AfterSleep(d2) ==
            Ret(WaitForCommandExecution_Done([d2 EXCEPT !.event = FALSE]), kSuccess)
    IN Traced("WaitForCommandExecution", d0,
           IF d.completed < d.submitted
           THEN IF o.fail = "SetEventOnCompletion" THEN Ret(d, kErrorFail)
                ELSE IF o.fail = "Wait" THEN Ret(d1, kErrorFail)
                ELSE IF d1.event
                THEN Ret(WaitForCommandExecution_Done([d1 EXCEPT !.event = FALSE]), kSuccess)
                ELSE IF timeout_milliseconds = 0
                        \/ (timeout_milliseconds # kTimeoutInfinite /\ ~o.gpu_done)
                THEN Ret(d1, kNotReady)
                ELSE AfterSleep(RunGpuUntilEvent([d1 EXCEPT !.blocked = TRUE]))
           ELSE Ret(WaitForCommandExecution_Done(d), kSuccess))

\* A descriptor as the Create*View calls write it: the kind of view, the
\* buffer and the byte range it describes.
Descriptor(class, buffer, byte_range) ==
    [class |-> class, buffer |-> buffer, byte_range |-> byte_range]

\* DeviceImpl::CreateNullDescriptors: the three static descriptors.
NullDescriptors ==
    [i \in 0 .. kStaticDescriptorCount - 1 |->
        Descriptor(CASE i = 0 -> "cbv" [] i = 1 -> "srv" [] i = 2 -> "uav", NULL, kEmptyRange)]

\* Create*View at GetCpuHandleForDescriptor(index).
WriteDescriptor(heap, index, desc) ==
    [i \in DOMAIN heap \cup {index} |-> IF i = index THEN desc ELSE heap[i]]

\* A variant that keeps the cached descriptor indices.
ResetDescriptors_KeepsIndices(d) == d

ResetDescriptors(d) ==
    [d EXCEPT !.cbv = [s \in DOMAIN d.cbv |-> [d.cbv[s] EXCEPT !.descriptor_index = UINT32_MAX]],
              !.srv = [s \in DOMAIN d.srv |-> [d.srv[s] EXCEPT !.descriptor_index = UINT32_MAX]],
              !.uav = [s \in DOMAIN d.uav |-> [d.uav[s] EXCEPT !.descriptor_index = UINT32_MAX]]]

ClearDynamic(next) == kStaticDescriptorCount

\* A variant that leaves the dynamic regions of the descriptor heaps as they
\* are.
ResetCommandListForRecording_KeepsHeaps(d0, o) ==
    LET d == JD3D12_ASSERT(d0, d0.cls = "kNone")
        d1 == ResetDescriptors(d)
    IN Traced("ResetCommandListForRecording", d0,
           IF o.fail = "Reset" \/ (d1.queue # <<>> /\ ~o.reset_ok) THEN Ret(d1, kErrorFail)
           ELSE Ret(SetState([d1 EXCEPT !.cmds = <<>>, !.closed = FALSE], "kRecording"),
                    kSuccess))

ResetCommandListForRecording(d0, o) ==
    LET d == JD3D12_ASSERT(d0, d0.cls = "kNone")
        d1 == [ResetDescriptors(d) EXCEPT !.invis = ClearDynamic(@), !.vis = ClearDynamic(@),
                                          !.heap = NullDescriptors]
    IN Traced("ResetCommandListForRecording", d0,
           IF o.fail = "Reset" \/ (d1.queue # <<>> /\ ~o.reset_ok) THEN Ret(d1, kErrorFail)
           ELSE Ret(SetState([d1 EXCEPT !.cmds = <<>>, !.closed = FALSE], "kRecording"),
                    kSuccess))

\* Each JD3D12_RETURN_IF_FAILED(call) is written AfterCall(call): the rest of
\* the function, applied to what the call returned.
EnsureCommandListState(d, desired_state, timeout_milliseconds, o) ==
    LET AfterReset(r3) == IF Failed(r3.res) THEN r3 ELSE Ret(r3.d, kSuccess)
        AfterWait(r2) ==
            IF Failed(r2.res) THEN r2
            ELSE IF desired_state = r2.d.cls THEN Ret(r2.d, kSuccess)
            ELSE AfterReset(IF r2.d.cls = "kNone" THEN ResetCommandListForRecording(r2.d, o)
                            ELSE Ret(r2.d, kSuccess))
        AfterExecute(r1) ==
            IF Failed(r1.res) THEN r1
            ELSE IF desired_state = r1.d.cls THEN Ret(r1.d, kSuccess)
            ELSE AfterWait(IF r1.d.cls = "kExecuting"
                           THEN WaitForCommandExecution(r1.d, timeout_milliseconds, o)
                           ELSE Ret(r1.d, kSuccess))
    IN IF desired_state = d.cls THEN Ret(d, kSuccess)
       ELSE AfterExecute(IF d.cls = "kRecording" THEN ExecuteRecordedCommands(d, o)
                         ELSE Ret(d, kSuccess))

\* ------------------------------------------------------------------------
\* Resource usage tracker (core.cpp 920-926, 1846-1907)
\* ------------------------------------------------------------------------
\* A variant that reports a conflict as soon as any buffer has such an access.
IsUsed_AnyBuffer(d, buf, usage_flags) ==
    \E b \in DOMAIN d.usage : d.usage[b].used /\ (d.usage[b].flags \cap usage_flags) # {}

IsUsed(d, buf, usage_flags) ==
    d.usage[buf].used /\ (d.usage[buf].flags \cap usage_flags) # {}

\* A call that records into command_list_.  The runtime drops a call made on
\* a list that is closed.
Record(d, c) == IF d.closed THEN d ELSE [d EXCEPT !.cmds = Append(@, c)]

UsageFlagsOf(state) ==
    IF state \in {"COPY_DEST", "UNORDERED_ACCESS"} THEN {"Read", "Write"} ELSE {"Read"}

\* A variant that issues barriers whatever the heap type of the buffer.
Barrier_AnyStrategy(d, buf, state) ==
    LET last == d.usage[buf].last_state IN
    IF state # last
    THEN Record(d, [Cmd("TransitionBarrier") EXCEPT !.buf = buf, !.before = last, !.after = state])
    ELSE d

Barrier(d, buf, state) ==
    LET last == d.usage[buf].last_state IN
    IF strategy_(buf) = "kDefault"
    THEN IF state # last
         THEN Record(d, [Cmd("TransitionBarrier") EXCEPT !.buf = buf, !.before = last, !.after = state])
         ELSE IF state = "UNORDERED_ACCESS" /\ last = "UNORDERED_ACCESS"
         THEN Record(d, [Cmd("UAVBarrier") EXCEPT !.buf = buf])
         ELSE d
    ELSE d

\* A variant that creates the tracker entry before it looks at the mapping.
UseBuffer_EntryBeforeMappedCheck(d0, buf, state) ==
    LET d == JD3D12_ASSERT(d0, d0.cls = "kRecording")
        d1 == IF ~d.usage[buf].used
              THEN [d EXCEPT !.usage[buf] = [used |-> TRUE, flags |-> UsageFlagsOf(state),
                                             last_state |-> state]]
              ELSE [Barrier(d, buf, state) EXCEPT !.usage[buf].flags = @ \cup UsageFlagsOf(state),
                                                  !.usage[buf].last_state = state]
    IN IF d.mapped[buf] THEN Ret(d1, kErrorInvalidArgument) ELSE Ret(d1, kSuccess)

\* A variant that replaces the recorded flags by those of the latest use.
UseBuffer_OverwritesFlags(d0, buf, state) ==
    LET d == JD3D12_ASSERT(d0, d0.cls = "kRecording")
        Overwrite(d1) == [d1 EXCEPT !.usage[buf] = [used |-> TRUE, flags |-> UsageFlagsOf(state),
                                                    last_state |-> state]]
    IN IF d.mapped[buf] THEN Ret(d, kErrorInvalidArgument)
       ELSE IF ~d.usage[buf].used THEN Ret(Overwrite(d), kSuccess)
       ELSE Ret(Overwrite(Barrier(d, buf, state)), kSuccess)

UseBuffer(d0, buf, state) ==
    LET d == JD3D12_ASSERT(d0, d0.cls = "kRecording") IN
    IF d.mapped[buf] THEN Ret(d, kErrorInvalidArgument)
    ELSE IF ~d.usage[buf].used
    THEN Ret([d EXCEPT !.usage[buf] = [used |-> TRUE, flags |-> UsageFlagsOf(state),
                                       last_state |-> state]], kSuccess)
    ELSE LET d1 == Barrier(d, buf, state) IN
         Ret([d1 EXCEPT !.usage[buf].flags = @ \cup UsageFlagsOf(state),
                        !.usage[buf].last_state = state], kSuccess)

\* ------------------------------------------------------------------------
\* Mapping and CPU transfers (core.cpp 1250-1403)
\* ------------------------------------------------------------------------
TimeoutOf(command_flags) == IF command_flags = kCommandFlagDontWait THEN 0 ELSE kTimeoutInfinite

\* A variant that hands out the persistently mapped pointer without checking
\* that the buffer has one.
MapBuffer_NoPointerCheck(d, buf, byte_range0, cpu_usage_flag, command_flags, o) ==
    IF d.mapped[buf] THEN Ret(d, kErrorInvalidArgument)
    ELSE IF ~(cpu_usage_flag \subseteq GetFlags(buf)) THEN Ret(d, kErrorInvalidArgument)
    ELSE Ret([d EXCEPT !.mapped[buf] = TRUE], kSuccess)

MapBuffer(d, buf, byte_range0, cpu_usage_flag, command_flags, o) ==
    IF d.mapped[buf] THEN Ret(d, kErrorInvalidArgument)
    ELSE IF ~HasPersistentlyMappedPtr(buf) THEN Ret(d, kErrorInvalidArgument)
    ELSE IF CountBitsSet(cpu_usage_flag \cap {"CpuSequentialWrite", "CpuRead"}) # 1
    THEN Ret(d, kErrorInvalidArgument)
    ELSE IF ~(cpu_usage_flag \subseteq GetFlags(buf)) THEN Ret(d, kErrorInvalidArgument)
    ELSE
    LET is_writing == "CpuSequentialWrite" \in GetFlags(buf)
        byte_range == LimitRange(byte_range0, GetSize(buf))
    IN
    IF ~(byte_range.count > 0) THEN Ret(d, kErrorInvalidArgument)
    ELSE IF ~(SizeT(byte_range.first + byte_range.count) <= GetSize(buf))
    THEN Ret(d, kErrorInvalidArgument)
    ELSE
    LET conflicting_usage_flags == IF is_writing THEN {"Write", "Read"} ELSE {"Write"}
        AfterEnsure(r) ==
            IF r.res # kSuccess THEN r
            ELSE Ret([r.d EXCEPT !.mapped[buf] = TRUE], kSuccess)
    IN AfterEnsure(IF IsUsed(d, buf, conflicting_usage_flags)
                   THEN EnsureCommandListState(d, "kNone", TimeoutOf(command_flags), o)
                   ELSE Ret(d, kSuccess))

UnmapBuffer(d0, buf) ==
    LET d == JD3D12_ASSERT(d0, d0.mapped[buf]) IN
    [d EXCEPT !.mapped[buf] = FALSE]

\* memcpy(dst_memory, mapped_ptr, count): the words of the range.
MemRead(m, buf, byte_range) ==
    [i \in 1 .. (byte_range.count \div 4) |-> m[buf][(byte_range.first \div 4) + i - 1]]

\* memcpy(mapped_ptr, src_data.data, src_data.size)
MemWrite(m, buf, byte_offset, data) ==
    [m EXCEPT ![buf] = [w \in Words(buf) |->
        IF w >= byte_offset \div 4 /\ w < (byte_offset \div 4) + Len(data)
        THEN data[w - (byte_offset \div 4) + 1] ELSE m[buf][w]]]

ReadBufferToMemory(d, src_buf, src_byte_range0, command_flags, o) ==
    IF d.mapped[src_buf] THEN Ret(d, kErrorInvalidArgument)
    ELSE
    LET src_byte_range == LimitRange(src_byte_range0, GetSize(src_buf)) IN
    IF src_byte_range.count = 0 THEN Ret(d, kFalse)
    ELSE IF ~(src_byte_range.first < GetSize(src_buf)
              /\ SizeT(src_byte_range.first + src_byte_range.count) <= GetSize(src_buf))
    THEN Ret(d, kErrorInvalidArgument)
    ELSE
    LET AfterMap(m) ==
            IF Failed(m.res) THEN m
            ELSE Ret(UnmapBuffer([m.d EXCEPT !.out = MemRead(m.d.mem, src_buf, src_byte_range)],
                                 src_buf), kSuccess)
        AfterEnsure(r) ==
            IF r.res = kNotReady THEN r
            ELSE IF Failed(r.res) THEN r
            ELSE AfterMap(MapBuffer(r.d, src_buf, src_byte_range, {"CpuRead"}, 0, o))
    IN AfterEnsure(IF IsUsed(d, src_buf, {"Write"})
                   THEN EnsureCommandListState(d, "kNone", TimeoutOf(command_flags), o)
                   ELSE Ret(d, kSuccess))

WriteMemoryToBuffer(d, src_data, dst_buf, dst_byte_offset, command_flags, o) ==
    LET size == 4 * Len(src_data) IN
    IF d.mapped[dst_buf] THEN Ret(d, kErrorInvalidArgument)
    ELSE IF size = 0 THEN Ret(d, kFalse)
    ELSE IF ~(dst_byte_offset < GetSize(dst_buf)
              /\ SizeT(dst_byte_offset + size) <= GetSize(dst_buf))
    THEN Ret(d, kErrorInvalidArgument)
    ELSE IF strategy_(dst_buf) = "kUpload"
    THEN LET AfterMap(m) ==
                 IF Failed(m.res) THEN m
                 ELSE Ret(UnmapBuffer([m.d EXCEPT
                                          !.mem = MemWrite(@, dst_buf, dst_byte_offset, src_data)],
                                      dst_buf), kSuccess)
             AfterEnsure(r) ==
                 IF r.res # kSuccess THEN r
                 ELSE AfterMap(MapBuffer(r.d, dst_buf, Range(dst_byte_offset, size),
                                         {"CpuSequentialWrite"}, 0, o))
         IN AfterEnsure(IF IsUsed(d, dst_buf, {"Write", "Read"})
                        THEN EnsureCommandListState(d, "kNone", TimeoutOf(command_flags), o)
                        ELSE Ret(d, kSuccess))
    ELSE IF strategy_(dst_buf) = "kDefault"
    THEN IF ~(size <= 65536) THEN Ret(d, kErrorInvalidArgument)
         ELSE
         \* dst_gpu_address starts at GetGPUVirtualAddress(), the first byte of
         \* the buffer: dst_byte_offset is not added to it.
         LET AfterUse(u) ==
                 IF Failed(u.res) THEN u
                 ELSE Ret(Record(u.d, [Cmd("WriteBufferImmediate") EXCEPT
                                           !.buf = dst_buf, !.off = 0,
                                           !.data = src_data]), kSuccess)
             AfterEnsureRecording(r) ==
                 IF r.res # kSuccess THEN r
                 ELSE AfterUse(UseBuffer(r.d, dst_buf, "COPY_DEST"))
         IN AfterEnsureRecording(
                EnsureCommandListState(d, "kRecording", TimeoutOf(command_flags), o))
    ELSE Ret(JD3D12_ASSERT(d, FALSE), kErrorUnexpected)

\* ------------------------------------------------------------------------
\* Submission, waiting, copies (core.cpp 1405-1461)
\* ------------------------------------------------------------------------
\* A variant that submits whatever the state of the list.
SubmitPendingCommands_AnyState(d, o) ==
    LET AfterExecute(r) == IF Failed(r.res) THEN r ELSE Ret(r.d, kSuccess) IN
    AfterExecute(ExecuteRecordedCommands(d, o))

SubmitPendingCommands(d, o) ==
    LET AfterExecute(r) == IF Failed(r.res) THEN r ELSE Ret(r.d, kSuccess) IN
    AfterExecute(IF d.cls = "kRecording" THEN ExecuteRecordedCommands(d, o) ELSE Ret(d, kSuccess))

WaitForGPU(d, timeout_milliseconds, o) ==
    LET AfterEnsure(r) == IF Failed(r.res) THEN r ELSE Ret(r.d, kSuccess) IN
    AfterEnsure(EnsureCommandListState(d, "kNone", timeout_milliseconds, o))

CopyBuffer(d, src_buf, dst_buf, o) ==
    IF "CopySrc" \notin GetFlags(src_buf) THEN Ret(d, kErrorInvalidArgument)
    ELSE IF "CopyDst" \notin GetFlags(dst_buf) THEN Ret(d, kErrorInvalidArgument)
    ELSE IF GetSize(src_buf) # GetSize(dst_buf) THEN Ret(d, kErrorInvalidArgument)
    ELSE
    LET AfterUseDst(u2) ==
            IF Failed(u2.res) THEN u2
            ELSE Ret(Record(u2.d, [Cmd("CopyResource") EXCEPT !.buf = dst_buf, !.src = src_buf,
                                       !.count = GetSize(src_buf)]), kSuccess)
        AfterUseSrc(u1) ==
            IF Failed(u1.res) THEN u1 ELSE AfterUseDst(UseBuffer(u1.d, dst_buf, "COPY_DEST"))
        AfterEnsure(r) ==
            IF Failed(r.res) THEN r ELSE AfterUseSrc(UseBuffer(r.d, src_buf, "COPY_SOURCE"))
    IN AfterEnsure(EnsureCommandListState(d, "kRecording", kTimeoutInfinite, o))

CopyBufferRegion(d, src_buf, src_byte_range0, dst_buf, dst_byte_offset, o) ==
    IF "CopySrc" \notin GetFlags(src_buf) THEN Ret(d, kErrorInvalidArgument)
    ELSE IF "CopyDst" \notin GetFlags(dst_buf) THEN Ret(d, kErrorInvalidArgument)
    ELSE
    LET src_byte_range == LimitRange(src_byte_range0, GetSize(src_buf)) IN
    IF ~(src_byte_range.count >= 0 /\ src_byte_range.count % 4 = 0)
    THEN Ret(d, kErrorInvalidArgument)
    ELSE IF ~(SizeT(src_byte_range.first + src_byte_range.count) <= GetSize(src_buf))
    THEN Ret(d, kErrorInvalidArgument)
    ELSE IF ~(SizeT(dst_byte_offset + src_byte_range.count) <= GetSize(dst_buf))
    THEN Ret(d, kErrorInvalidArgument)
    ELSE
    LET AfterUseDst(u2) ==
            IF Failed(u2.res) THEN u2
            ELSE Ret(Record(u2.d, [Cmd("CopyBufferRegion") EXCEPT !.buf = dst_buf, !.src = src_buf,
                                       !.first = src_byte_range.first,
                                       !.count = src_byte_range.count,
                                       !.off = dst_byte_offset]), kSuccess)
        AfterUseSrc(u1) ==
            IF Failed(u1.res) THEN u1 ELSE AfterUseDst(UseBuffer(u1.d, dst_buf, "COPY_DEST"))
        AfterEnsure(r) ==
            IF Failed(r.res) THEN r ELSE AfterUseSrc(UseBuffer(r.d, src_buf, "COPY_SOURCE"))
    IN AfterEnsure(EnsureCommandListState(d, "kRecording", kTimeoutInfinite, o))

\* ------------------------------------------------------------------------
\* Descriptor heap (core.cpp 904-915)
\* ------------------------------------------------------------------------
\* The index SetComputeRootDescriptorTable is given for a slot.
RootArgument(class, binding) ==
    IF binding.buffer = NULL
    THEN (CASE class = "cbv" -> 0 [] class = "srv" -> 1 [] class = "uav" -> 2)
    ELSE binding.descriptor_index

RootArguments(d) ==
    [class \in {"cbv", "srv", "uav"} |->
        [slot \in DOMAIN d[class] |-> RootArgument(class, d[class][slot])]]

\* A variant without the capacity check.
AllocateDynamic_NoLimit(next, out_index) ==
    [res |-> kSuccess, next |-> next + 1, index |-> next]

AllocateDynamic(next, out_index) ==
    IF next = kMaxDescriptorCount
    THEN [res |-> kErrorTooManyObjects, next |-> next, index |-> out_index]
    ELSE [res |-> kSuccess, next |-> next + 1, index |-> next]

\* ------------------------------------------------------------------------
\* Binding cache (core.cpp 1519-1663, 1020-1038)
\* ------------------------------------------------------------------------
IsBufferBound(d, buf) ==
    \/ \E s \in DOMAIN d.cbv : d.cbv[s].buffer = buf
    \/ \E s \in DOMAIN d.srv : d.srv[s].buffer = buf
    \/ \E s \in DOMAIN d.uav : d.uav[s].buffer = buf

ResetAllBindings(d) ==
    [d EXCEPT !.cbv = [s \in DOMAIN d.cbv |-> EmptyBinding],
              !.srv = [s \in DOMAIN d.srv |-> EmptyBinding],
              !.uav = [s \in DOMAIN d.uav |-> EmptyBinding]]

NormalizedRange(buf, byte_range) ==
    IF buf # NULL THEN LimitRange(byte_range, GetSize(buf)) ELSE kEmptyRange

Alignment(buf) == IF GetElementSize(buf) = 0 THEN 4 ELSE GetElementSize(buf)

NewBinding(buf, byte_range) ==
    [buffer |-> buf, byte_range |-> byte_range, descriptor_index |-> UINT32_MAX]

BindConstantBuffer(d, b_slot, buf, byte_range0) ==
    IF ~(b_slot < kMaxCBVCount) THEN Ret(d, kErrorInvalidArgument)
    ELSE
    LET byte_range == NormalizedRange(buf, byte_range0) IN
    IF ~(byte_range.first % D3D12_CONSTANT_BUFFER_DATA_PLACEMENT_ALIGNMENT = 0
         /\ byte_range.count % D3D12_CONSTANT_BUFFER_DATA_PLACEMENT_ALIGNMENT = 0)
    THEN Ret(d, kErrorInvalidArgument)
    ELSE IF d.cbv[b_slot].buffer = buf /\ d.cbv[b_slot].byte_range = byte_range
    THEN Ret(d, kFalse)
    ELSE IF buf = NULL THEN Ret([d EXCEPT !.cbv[b_slot] = EmptyBinding], kSuccess)
    ELSE IF ~(byte_range.first % Alignment(buf) = 0) THEN Ret(d, kErrorInvalidArgument)
    ELSE IF ~(byte_range.count > 0 /\ byte_range.count % Alignment(buf) = 0)
    THEN Ret(d, kErrorInvalidArgument)
    ELSE IF "ShaderConstant" \notin GetFlags(buf) THEN Ret(d, kErrorInvalidArgument)
    ELSE IF ~(byte_range.first < GetSize(buf)) THEN Ret(d, kErrorInvalidArgument)
    ELSE IF ~(SizeT(byte_range.first + byte_range.count) <= GetSize(buf))
    THEN Ret(d, kErrorInvalidArgument)
    ELSE Ret([d EXCEPT !.cbv[b_slot] = NewBinding(buf, byte_range)], kSuccess)

\* A variant without the early return for an unchanged binding.
BindBuffer_AlwaysRebinds(d, t_slot, buf, byte_range0) ==
    IF ~(t_slot < kMaxSRVCount) THEN Ret(d, kErrorInvalidArgument)
    ELSE IF buf = NULL THEN Ret([d EXCEPT !.srv[t_slot] = EmptyBinding], kSuccess)
    ELSE IF "ShaderResource" \notin GetFlags(buf) THEN Ret(d, kErrorInvalidArgument)
    ELSE Ret([d EXCEPT !.srv[t_slot] = NewBinding(buf, NormalizedRange(buf, byte_range0))],
             kFalse)

BindBuffer(d, t_slot, buf, byte_range0) ==
    IF ~(t_slot < kMaxSRVCount) THEN Ret(d, kErrorInvalidArgument)
    ELSE
    LET byte_range == NormalizedRange(buf, byte_range0) IN
    IF d.srv[t_slot].buffer = buf /\ d.srv[t_slot].byte_range = byte_range
    THEN Ret(d, kFalse)
    ELSE IF buf = NULL THEN Ret([d EXCEPT !.srv[t_slot] = EmptyBinding], kSuccess)
    ELSE IF CountBitsSet(GetFlags(buf) \cap kBufferTypeMask) # 1
    THEN Ret(d, kErrorInvalidArgument)
    ELSE IF ~(byte_range.first % Alignment(buf) = 0) THEN Ret(d, kErrorInvalidArgument)
    ELSE IF ~(byte_range.count > 0 /\ byte_range.count % Alignment(buf) = 0)
    THEN Ret(d, kErrorInvalidArgument)
    ELSE IF "ShaderResource" \notin GetFlags(buf) THEN Ret(d, kErrorInvalidArgument)
    ELSE IF ~(byte_range.first < GetSize(buf)) THEN Ret(d, kErrorInvalidArgument)
    ELSE IF ~(SizeT(byte_range.first + byte_range.count) <= GetSize(buf))
    THEN Ret(d, kErrorInvalidArgument)
    ELSE Ret([d EXCEPT !.srv[t_slot] = NewBinding(buf, byte_range)], kSuccess)

BindRWBuffer(d, u_slot, buf, byte_range0) ==
    IF ~(u_slot < kMaxUAVCount) THEN Ret(d, kErrorInvalidArgument)
    ELSE
    LET byte_range == NormalizedRange(buf, byte_range0) IN
    IF d.uav[u_slot].buffer = buf /\ d.uav[u_slot].byte_range = byte_range
    THEN Ret(d, kFalse)
    ELSE IF buf = NULL THEN Ret([d EXCEPT !.uav[u_slot] = EmptyBinding], kSuccess)
    ELSE IF CountBitsSet(GetFlags(buf) \cap kBufferTypeMask) # 1
    THEN Ret(d, kErrorInvalidArgument)
    ELSE IF ~(byte_range.first % Alignment(buf) = 0) THEN Ret(d, kErrorInvalidArgument)
    ELSE IF ~(byte_range.count > 0 /\ byte_range.count % Alignment(buf) = 0)
    THEN Ret(d, kErrorInvalidArgument)
    ELSE IF "ShaderRWResource" \notin GetFlags(buf) THEN Ret(d, kErrorInvalidArgument)
    ELSE IF ~(byte_range.first < GetSize(buf)) THEN Ret(d, kErrorInvalidArgument)
    ELSE IF ~(SizeT(byte_range.first + byte_range.count) <= GetSize(buf))
    THEN Ret(d, kErrorInvalidArgument)
    ELSE Ret([d EXCEPT !.uav[u_slot] = NewBinding(buf, byte_range)], kSuccess)

\* ------------------------------------------------------------------------
\* Dispatch (core.cpp 1909-2110, 2256-2294)
\* ------------------------------------------------------------------------
SlotCount(class) ==
    CASE class = "cbv" -> kMaxCBVCount [] class = "srv" -> kMaxSRVCount [] class = "uav" -> kMaxUAVCount

StateForClass(class) ==
    CASE class = "cbv" -> "VERTEX_AND_CONSTANT_BUFFER"
      [] class = "srv" -> "NON_PIXEL_SHADER_RESOURCE"
      [] class = "uav" -> "UNORDERED_ACCESS"

\* One of the three loops of UpdateRootArguments, from slot onwards.
RECURSIVE UpdateSlots(_, _, _)
UpdateSlots(d, class, slot) ==
    IF slot = SlotCount(class) THEN Ret(d, kSuccess)
    ELSE
    LET binding == d[class][slot]
        AfterAllocate(d1, a) ==
            IF Failed(a.res) THEN Ret(d1, a.res)
            ELSE UpdateSlots([d1 EXCEPT !.vis = a.next,
                                        ![class][slot].descriptor_index = a.index,
                                        !.heap = WriteDescriptor(@, a.index,
                                                     Descriptor(class, binding.buffer,
                                                                binding.byte_range))],
                             class, slot + 1)
        AfterUse(u) ==
            IF Failed(u.res) THEN u
            ELSE IF binding.descriptor_index = UINT32_MAX
            THEN AfterAllocate(u.d, AllocateDynamic(u.d.vis, binding.descriptor_index))
            ELSE UpdateSlots(u.d, class, slot + 1)
    IN IF binding.buffer = NULL THEN UpdateSlots(d, class, slot + 1)
       ELSE AfterUse(UseBuffer(d, binding.buffer, StateForClass(class)))

UpdateRootArguments(d0) ==
    LET AfterSrv(s) == IF Failed(s.res) THEN s ELSE UpdateSlots(s.d, "uav", 0)
        AfterCbv(c) == IF Failed(c.res) THEN c ELSE AfterSrv(UpdateSlots(c.d, "srv", 0))
    IN AfterCbv(UpdateSlots(JD3D12_ASSERT(d0, d0.cls = "kRecording"), "cbv", 0))

BoundUavs(d) ==
    {[buffer |-> d.uav[s].buffer, first |-> d.uav[s].byte_range.first,
      count |-> d.uav[s].byte_range.count] : s \in {t \in DOMAIN d.uav : d.uav[t].buffer # NULL}}

\* A variant that checks the upper limit of the group counts first.
DispatchComputeShader_LimitFirst(d, group_count, o) ==
    IF ~(group_count[1] <= UINT16_MAX /\ group_count[2] <= UINT16_MAX
         /\ group_count[3] <= UINT16_MAX)
    THEN Ret(d, kErrorInvalidArgument)
    ELSE IF group_count[1] = 0 \/ group_count[2] = 0 \/ group_count[3] = 0 THEN Ret(d, kFalse)
    ELSE Ret(Record(d, [Cmd("Dispatch") EXCEPT !.uavs = BoundUavs(d)]), kSuccess)

DispatchComputeShader(d, group_count, o) ==
    IF group_count[1] = 0 \/ group_count[2] = 0 \/ group_count[3] = 0 THEN Ret(d, kFalse)
    ELSE IF ~(group_count[1] <= UINT16_MAX /\ group_count[2] <= UINT16_MAX
              /\ group_count[3] <= UINT16_MAX)
    THEN Ret(d, kErrorInvalidArgument)
    ELSE
    LET AfterUpdate(u) ==
            IF Failed(u.res) THEN u
            ELSE Ret(Record(u.d, [Cmd("Dispatch") EXCEPT !.uavs = BoundUavs(u.d),
                                                         !.shader = "S"]), kSuccess)
        AfterEnsure(r) == IF Failed(r.res) THEN r ELSE AfterUpdate(UpdateRootArguments(r.d))
    IN AfterEnsure(EnsureCommandListState(d, "kRecording", kTimeoutInfinite, o))

\* ------------------------------------------------------------------------
\* Clears (core.cpp 1463-1517, 2186-2254)
\* ------------------------------------------------------------------------
\* a * b modulo SIZE_MOD for b a power of two
MulSizeT(a, b) == (a % (SIZE_MOD \div b)) * b

BeginClearBufferToValues(d, buf, element_range0, o) ==
    LET Out(d1, res, range) == [d |-> d1, res |-> res, range |-> range]
        element_size == IF "Typed" \in GetFlags(buf) THEN BufferDesc(buf).element_bits \div 8 ELSE 4
        element_range == LimitRange(element_range0, GetSize(buf) \div element_size)
        AfterAllocateInvisible(d1, a2) ==
            IF Failed(a2.res) THEN Out(d1, a2.res, element_range0)
            ELSE IF "Typed" \notin GetFlags(buf) /\ "ByteAddress" \notin GetFlags(buf)
            THEN Out([d1 EXCEPT !.invis = a2.next], kErrorInvalidArgument, element_range0)
            ELSE IF ~(MulSizeT(element_range.first, element_size) < GetSize(buf)
                      /\ MulSizeT(SizeT(element_range.first + element_range.count), element_size)
                             <= GetSize(buf))
            THEN Out([d1 EXCEPT !.invis = a2.next], kErrorInvalidArgument, element_range)
            ELSE Out([d1 EXCEPT !.invis = a2.next,
                                !.heap = WriteDescriptor(@, d1.vis - 1,
                                             Descriptor("uav", buf,
                                                 Range(MulSizeT(element_range.first, element_size),
                                                       MulSizeT(element_range.count, element_size))))],
                     kSuccess, element_range)
        AfterAllocateVisible(d1, a1) ==
            IF Failed(a1.res) THEN Out(d1, a1.res, element_range0)
            ELSE AfterAllocateInvisible([d1 EXCEPT !.vis = a1.next],
                                        AllocateDynamic(d1.invis, UINT32_MAX))
        AfterUse(u) ==
            IF Failed(u.res) THEN Out(u.d, u.res, element_range0)
            ELSE AfterAllocateVisible(u.d, AllocateDynamic(u.d.vis, UINT32_MAX))
        AfterEnsure(r) ==
            IF Failed(r.res) THEN Out(r.d, r.res, element_range0)
            ELSE AfterUse(UseBuffer(r.d, buf, "UNORDERED_ACCESS"))
    IN AfterEnsure(EnsureCommandListState(d, "kRecording", kTimeoutInfinite, o))

ClearBufferToUintValues(d, buf, values, element_range, o) ==
    IF "ShaderRWResource" \notin GetFlags(buf) THEN Ret(d, kErrorInvalidArgument)
    ELSE IF (GetFlags(buf) \cap {"Typed", "ByteAddress"}) = {} THEN Ret(d, kErrorInvalidArgument)
    ELSE IF element_range.count = 0 THEN Ret(d, kFalse)
    ELSE
    LET AfterBegin(b) ==
            IF Failed(b.res) THEN Ret(b.d, b.res)
            ELSE Ret(Record(b.d, [Cmd("ClearUnorderedAccessView") EXCEPT !.buf = buf,
                                      !.first = b.range.first, !.count = b.range.count,
                                      !.data = values]), kSuccess)
    IN AfterBegin(BeginClearBufferToValues(d, buf, element_range, o))

ClearBufferToFloatValues(d, buf, values, element_range, o) ==
    IF "ShaderRWResource" \notin GetFlags(buf) THEN Ret(d, kErrorInvalidArgument)
    ELSE IF "Typed" \notin GetFlags(buf) THEN Ret(d, kErrorInvalidArgument)
    ELSE IF element_range.count = 0 THEN Ret(d, kFalse)
    ELSE
    LET AfterBegin(b) ==
            IF Failed(b.res) THEN Ret(b.d, b.res)
            ELSE Ret(Record(b.d, [Cmd("ClearUnorderedAccessView") EXCEPT !.buf = buf,
                                      !.first = b.range.first, !.count = b.range.count,
                                      !.data = values]), kSuccess)
    IN AfterBegin(BeginClearBufferToValues(d, buf, element_range, o))

\* ------------------------------------------------------------------------
\* Buffer creation (core.cpp 575-786, 1124-1152)
\* ------------------------------------------------------------------------
\* A variant that looks at CpuSequentialWrite before ShaderRWResource when it
\* chooses the strategy.
InitParameters_CpuWriteFirst(desc, initial_data_size) ==
    IF (desc.flags \cap (kBufferUsageMaskCpu \cup kBufferUsageMaskCopy
                             \cup kBufferUsageMaskShader)) = {}
       \/ CountBitsSet(desc.flags \cap kBufferUsageMaskCpu) > 1
       \/ CountBitsSet(desc.flags \cap kBufferTypeMask) > 1
       \/ desc.size = 0 \/ desc.size % 4 # 0 \/ initial_data_size > desc.size
       \/ ("Typed" \in desc.flags) # (desc.element_bits # 0)
       \/ desc.element_bits % 8 # 0
       \/ ("Structured" \in desc.flags) # (desc.structure_size > 0)
       \/ desc.structure_size % 4 # 0
       \/ (ElementSizeOf(desc) > 0 /\ desc.size % ElementSizeOf(desc) # 0)
       \/ ("CpuRead" \in desc.flags
              /\ desc.flags \cap (kBufferUsageMaskShader \cup {"CopySrc"}) # {})
       \/ (initial_data_size > 0 /\ "CpuSequentialWrite" \notin desc.flags)
    THEN [res |-> kErrorInvalidArgument, strategy |-> "kNone"]
    ELSE IF "CpuSequentialWrite" \in desc.flags
    THEN [res |-> kSuccess, strategy |-> "kUpload"]
    ELSE IF "ShaderRWResource" \in desc.flags THEN [res |-> kSuccess, strategy |-> "kDefault"]
    ELSE IF "CpuRead" \in desc.flags THEN [res |-> kSuccess, strategy |-> "kReadback"]
    ELSE [res |-> kSuccess, strategy |-> "kDefault"]

\* BufferImpl::InitParameters: the result and the strategy_ it leaves.
InitParameters(desc, initial_data_size) ==
    LET Out(res, strategy) == [res |-> res, strategy |-> strategy]
        is_typed == "Typed" \in desc.flags
        is_structured == "Structured" \in desc.flags
        element_size == ElementSizeOf(desc)
    IN
    IF (desc.flags \cap (kBufferUsageMaskCpu \cup kBufferUsageMaskCopy
                             \cup kBufferUsageMaskShader)) = {}
    THEN Out(kErrorInvalidArgument, "kNone")
    ELSE IF ~(CountBitsSet(desc.flags \cap kBufferUsageMaskCpu) <= 1)
    THEN Out(kErrorInvalidArgument, "kNone")
    ELSE IF ~(CountBitsSet(desc.flags \cap kBufferTypeMask) <= 1)
    THEN Out(kErrorInvalidArgument, "kNone")
    ELSE IF ~(desc.size > 0 /\ desc.size % 4 = 0) THEN Out(kErrorInvalidArgument, "kNone")
    ELSE IF ~(initial_data_size <= desc.size) THEN Out(kErrorInvalidArgument, "kNone")
    ELSE IF initial_data_size > 0 /\ "CpuSequentialWrite" \notin desc.flags
    THEN Out(kErrorInvalidArgument, "kNone")
    ELSE IF is_typed # (desc.element_bits # 0) THEN Out(kErrorInvalidArgument, "kNone")
    ELSE IF is_typed /\ ~(desc.element_bits > 0 /\ desc.element_bits % 8 = 0)
    THEN Out(kErrorInvalidArgument, "kNone")
    ELSE IF is_structured # (desc.structure_size > 0) THEN Out(kErrorInvalidArgument, "kNone")
    ELSE IF is_structured /\ desc.structure_size % 4 # 0
    THEN Out(kErrorInvalidArgument, "kNone")
    ELSE IF element_size > 0 /\ desc.size % element_size # 0
    THEN Out(kErrorInvalidArgument, "kNone")
    ELSE IF "ShaderRWResource" \in desc.flags
    THEN (IF "CpuRead" \in desc.flags THEN Out(kErrorInvalidArgument, "kDefault")
          ELSE Out(kSuccess, "kDefault"))
    ELSE IF "CpuSequentialWrite" \in desc.flags
    THEN (IF "CopyDst" \in desc.flags THEN Out(kErrorInvalidArgument, "kUpload")
          ELSE Out(kSuccess, "kUpload"))
    ELSE IF "CpuRead" \in desc.flags
    THEN (IF "CopySrc" \in desc.flags THEN Out(kErrorInvalidArgument, "kReadback")
          ELSE IF (desc.flags \cap kBufferUsageMaskShader) # {}
          THEN Out(kErrorInvalidArgument, "kReadback")
          ELSE Out(kSuccess, "kReadback"))
    ELSE Out(kSuccess, "kDefault")

\* What a call of CreateBufferFromMemory has produced: its arguments, its
\* result, and the BufferImpl as BufferImpl::Init left it.  out is TRUE when
\* out_buffer is not null.  null_write: memcpy was called with a null
\* destination; crashed: the process did not survive that.
NotCreated ==
    [desc |-> [flags |-> {}, size |-> 0, element_bits |-> 0, structure_size |-> 0],
     initial_data |-> <<>>, res |-> kSuccess, out |-> FALSE, strategy |-> "kNone",
     persistently_mapped_ptr_ |-> FALSE, written |-> <<>>, asserted |-> FALSE,
     null_write |-> FALSE, crashed |-> FALSE]

\* BufferImpl::WriteInitialData on the buffer c.
WriteInitialData(c, initial_data) ==
    IF Len(initial_data) = 0 THEN [c EXCEPT !.res = kFalse]
    ELSE IF "CpuSequentialWrite" \notin c.desc.flags THEN [c EXCEPT !.res = kErrorInvalidArgument]
    ELSE IF c.persistently_mapped_ptr_
    THEN [c EXCEPT !.res = kSuccess, !.written = initial_data]
    ELSE [c EXCEPT !.res = kSuccess, !.asserted = TRUE, !.null_write = TRUE]

\* BufferImpl::Init.  native_ok: CreateCommittedResource and Map succeed.
BufferInit(desc, initial_data, native_ok) ==
    LET p == InitParameters(desc, 4 * Len(initial_data))
        c0 == [NotCreated EXCEPT !.desc = desc, !.initial_data = initial_data,
                                 !.res = p.res, !.strategy = p.strategy]
        Finish(w) == IF Failed(w.res) THEN w ELSE [w EXCEPT !.res = kSuccess]
    IN IF Failed(p.res) THEN c0
       ELSE IF ~native_ok THEN [c0 EXCEPT !.res = kErrorFail]
       ELSE Finish(WriteInitialData(
                [c0 EXCEPT !.asserted = (p.strategy = "kNone"),
                           !.persistently_mapped_ptr_ =
                               p.strategy \in {"kUpload", "kGpuUpload", "kReadback"}],
                initial_data))

\* A variant that keeps the BufferImpl it constructed when Init fails.
CreateBufferFromMemory_KeepsFailed(d, desc, initial_data, native_ok, survives) ==
    LET c == BufferInit(desc, initial_data, native_ok) IN
    Ret([d EXCEPT !.count = @ + 1, !.asserted = c.asserted,
                  !.created = [c EXCEPT !.out = Succeeded(c.res)]], c.res)

\* DeviceImpl::CreateBufferFromMemory: the BufferImpl constructor counts the
\* buffer; when Init fails the unique_ptr destroys it again (it is neither
\* bound nor tracked nor mapped, so ~BufferImpl only decrements the count).
\* survives: the process outlives a memcpy to a null pointer.
CreateBufferFromMemory(d, desc, initial_data, native_ok, survives) ==
    LET c == BufferInit(desc, initial_data, native_ok) IN
    IF c.null_write /\ ~survives
    THEN Ret([d EXCEPT !.count = @ + 1, !.alive = FALSE, !.asserted = TRUE,
                       !.created = [c EXCEPT !.crashed = TRUE]], c.res)
    ELSE IF Failed(c.res)
    THEN Ret([d EXCEPT !.asserted = c.asserted, !.created = c], c.res)
    ELSE Ret([d EXCEPT !.count = @ + 1, !.asserted = c.asserted,
                       !.created = [c EXCEPT !.out = TRUE]], kSuccess)

\* Buffer::~Buffer of the buffer the last CreateBufferFromMemory returned.
DestroyCreated(d) ==
    [d EXCEPT !.count = @ - 1, !.created = NotCreated]

\* ------------------------------------------------------------------------
\* Destruction (core.cpp 683-695, 1090-1122, 1830-1837)
\* ------------------------------------------------------------------------
WaitForBufferUnused(d, buf, o) ==
    IF IsBufferBound(d, buf) THEN Ret(d, kErrorInvalidArgument)
    ELSE IF d.usage[buf].used THEN EnsureCommandListState(d, "kNone", kTimeoutInfinite, o)
    ELSE Ret(d, kSuccess)

\* BufferImpl::~BufferImpl.  The result is the one of WaitForBufferUnused.
DestroyBuffer(d, buf, o) ==
    LET AfterWait(r) ==
            Ret([JD3D12_ASSERT(JD3D12_ASSERT(r.d, Succeeded(r.res)), ~r.d.mapped[buf])
                     EXCEPT !.count = @ - 1, !.live = @ \ {buf}], r.res)
    IN AfterWait(WaitForBufferUnused(d, buf, o))

\* DeviceImpl::WaitForShaderUnused.  Nothing ever inserts into
\* shader_usage_set_.
WaitForShaderUnused(d, shader, o) ==
    IF shader \in d.shader_set THEN EnsureCommandListState(d, "kNone", kTimeoutInfinite, o)
    ELSE Ret(d, kSuccess)

\* ShaderImpl::~ShaderImpl.  The result is the one of WaitForShaderUnused.
DestroyShader(d, shader, o) ==
    LET AfterWaitShader(r) ==
            Ret([JD3D12_ASSERT(r.d, Succeeded(r.res))
                     EXCEPT !.shader_count = @ - 1, !.shaders = @ \ {shader}], r.res)
    IN AfterWaitShader(WaitForShaderUnused(d, shader, o))

\* DeviceImpl::~DeviceImpl.
DestroyDevice(d, o) ==
    LET AfterEnsure(r) ==
            Ret([JD3D12_ASSERT(JD3D12_ASSERT(JD3D12_ASSERT(r.d, Succeeded(r.res)),
                                             r.d.count = 0), r.d.shader_count = 0)
                     EXCEPT !.alive = FALSE], r.res)
    IN AfterEnsure(EnsureCommandListState(d, "kNone", kTimeoutInfinite, o))

\* ------------------------------------------------------------------------
\* Initial state: DeviceImpl::Init has returned (the command list is created
\* open, the fence at 0, the event unsignaled) and the buffers are created.
\* ------------------------------------------------------------------------
Op(name) == [name |-> name, buf |-> NULL, src |-> NULL, range |-> kEmptyRange, off |-> 0,
             data |-> <<>>, flags |-> 0, timeout |-> 0, slot |-> 0, group_count |-> <<>>,
             desired |-> ""]

\* Where the calls made so far stand in a sequence WriteMemoryToBuffer(data, U,
\* off); CopyBufferRegion(U, {off, N}, R, off2); ReadBufferToMemory(R, {off2, N})
\* on an Upload buffer U and a Readback buffer R, neither of them mapped.
\* The GPU finishing a list is not a call and does not interrupt the sequence.
NoRoundTrip == [phase |-> 0, data |-> <<>>, off |-> 0, off2 |-> 0]

RoundTripNext(op) ==
    IF op.name = "GpuComplete" THEN round_trip
    ELSE IF op.name = "WriteMemoryToBuffer" /\ op.buf = "U" /\ op.flags = 0 /\ op.data # <<>>
            /\ op.off + 4 * Len(op.data) <= GetSize("U")
            /\ ~is_user_mapped_["U"] /\ ~is_user_mapped_["R"]
    THEN [phase |-> 1, data |-> op.data, off |-> op.off, off2 |-> 0]
    ELSE IF round_trip.phase = 1 /\ op.name = "CopyBufferRegion" /\ op.src = "U" /\ op.buf = "R"
            /\ op.range = Range(round_trip.off, 4 * Len(round_trip.data))
            /\ op.off + 4 * Len(round_trip.data) <= GetSize("R")
    THEN [round_trip EXCEPT !.phase = 2, !.off2 = op.off]
    ELSE IF round_trip.phase = 2 /\ op.name = "ReadBufferToMemory" /\ op.buf = "R"
            /\ op.flags = 0 /\ op.range = Range(round_trip.off2, 4 * Len(round_trip.data))
    THEN [round_trip EXCEPT !.phase = 3]
    ELSE NoRoundTrip

\* The state after construction, but for the cursors of the two descriptor
\* heaps, which are parameters.
InitWithCursors(visible, invisible) ==
    /\ command_list_state_ = "kRecording"
    /\ submitted_fence_value_ = 0
    /\ fence_completed = 0
    /\ fence_event_ = FALSE
    /\ event_regs = {}
    /\ resource_usage_map_ = [b \in Buffers |-> NoUsage]
    /\ is_user_mapped_ = [b \in Buffers |-> FALSE]
    /\ vis_next = visible
    /\ invis_next = invisible
    /\ cbv_bindings_ = [s \in 0 .. kMaxCBVCount - 1 |-> EmptyBinding]
    /\ srv_bindings_ = [s \in 0 .. kMaxSRVCount - 1 |-> EmptyBinding]
    /\ uav_bindings_ = [s \in 0 .. kMaxUAVCount - 1 |-> EmptyBinding]
    /\ cmd_list = <<>>
    /\ list_closed = FALSE
    /\ gpu_queue = <<>>
    /\ mem = [b \in Buffers |-> [w \in Words(b) |-> 0]]
    /\ state_trace = <<>>
    /\ asserted = FALSE
    /\ blocked = FALSE
    /\ last_op = Op("Init")
    /\ result = kSuccess
    /\ read_out = <<>>
    /\ round_trip = NoRoundTrip
    /\ live_buffers = Buffers
    /\ buffer_count_ = Cardinality(Buffers)
    /\ device_alive = TRUE
    /\ created = NotCreated
    /\ shader_usage_set_ = {}
    /\ live_shaders = Shaders
    /\ shader_count_ = Cardinality(Shaders)
    /\ vis_heap = NullDescriptors

Init == InitWithCursors(kStaticDescriptorCount, kStaticDescriptorCount)

\* An operation returns r: the device takes the state r.d.  The model stops
\* at MaxFence submissions and MaxCmds recorded commands.  Nothing is called
\* on a destroyed device.
Step(op, r) ==
    /\ device_alive
    /\ r.d.submitted <= MaxFence
    /\ Len(r.d.cmds) <= MaxCmds
    /\ Commit(r.d)
    /\ result' = r.res
    /\ last_op' = op
    /\ round_trip' = RoundTripNext(op)

\* ------------------------------------------------------------------------
\* The operations
\* ------------------------------------------------------------------------
DoMapBuffer(buf, byte_range, cpu_usage_flag, command_flags, o) ==
    /\ buf \in live_buffers
    /\ Step([Op("MapBuffer") EXCEPT !.buf = buf, !.range = byte_range, !.flags = command_flags,
                                    !.data = cpu_usage_flag],
            MapBuffer(Dev, buf, byte_range, cpu_usage_flag, command_flags, o))

DoUnmapBuffer(buf) ==
    /\ buf \in live_buffers
    /\ is_user_mapped_[buf]
    /\ Step([Op("UnmapBuffer") EXCEPT !.buf = buf], Ret(UnmapBuffer(Dev, buf), kSuccess))

DoReadBufferToMemory(src_buf, src_byte_range, command_flags, o) ==
    /\ src_buf \in live_buffers
    /\ Step([Op("ReadBufferToMemory") EXCEPT !.buf = src_buf, !.range = src_byte_range,
                                             !.flags = command_flags],
            ReadBufferToMemory(Dev, src_buf, src_byte_range, command_flags, o))

DoWriteMemoryToBuffer(src_data, dst_buf, dst_byte_offset, command_flags, o) ==
    /\ dst_buf \in live_buffers
    /\ Step([Op("WriteMemoryToBuffer") EXCEPT !.buf = dst_buf, !.off = dst_byte_offset,
                                              !.data = src_data, !.flags = command_flags],
            WriteMemoryToBuffer(Dev, src_data, dst_buf, dst_byte_offset, command_flags, o))

DoSubmitPendingCommands(o) ==
    /\ o.fail \in FailPoints
    /\ Step(Op("SubmitPendingCommands"), SubmitPendingCommands(Dev, o))

DoWaitForGPU(timeout_milliseconds, o) ==
    /\ o.fail \in FailPoints
    /\ Step([Op("WaitForGPU") EXCEPT !.timeout = timeout_milliseconds],
            WaitForGPU(Dev, timeout_milliseconds, o))

DoCopyBuffer(src_buf, dst_buf, o) ==
    /\ {src_buf, dst_buf} \subseteq live_buffers
    /\ Step([Op("CopyBuffer") EXCEPT !.src = src_buf, !.buf = dst_buf],
            CopyBuffer(Dev, src_buf, dst_buf, o))

DoCopyBufferRegion(src_buf, src_byte_range, dst_buf, dst_byte_offset, o) ==
    /\ {src_buf, dst_buf} \subseteq live_buffers
    /\ Step([Op("CopyBufferRegion") EXCEPT !.src = src_buf, !.range = src_byte_range,
                                           !.buf = dst_buf, !.off = dst_byte_offset],
            CopyBufferRegion(Dev, src_buf, src_byte_range, dst_buf, dst_byte_offset, o))

DoClearBufferToUintValues(buf, values, element_range, o) ==
    /\ buf \in live_buffers
    /\ Step([Op("ClearBufferToUintValues") EXCEPT !.buf = buf, !.data = values,
                                                  !.range = element_range],
            ClearBufferToUintValues(Dev, buf, values, element_range, o))

DoClearBufferToFloatValues(buf, values, element_range, o) ==
    /\ buf \in live_buffers
    /\ Step([Op("ClearBufferToFloatValues") EXCEPT !.buf = buf, !.data = values,
                                                   !.range = element_range],
            ClearBufferToFloatValues(Dev, buf, values, element_range, o))

DoResetAllBindings ==
    Step(Op("ResetAllBindings"), Ret(ResetAllBindings(Dev), kSuccess))

DoBindConstantBuffer(b_slot, buf, byte_range) ==
    /\ buf \in live_buffers \cup {NULL}
    /\ Step([Op("BindConstantBuffer") EXCEPT !.slot = b_slot, !.buf = buf, !.range = byte_range],
            BindConstantBuffer(Dev, b_slot, buf, byte_range))

DoBindBuffer(t_slot, buf, byte_range) ==
    /\ buf \in live_buffers \cup {NULL}
    /\ Step([Op("BindBuffer") EXCEPT !.slot = t_slot, !.buf = buf, !.range = byte_range],
            BindBuffer(Dev, t_slot, buf, byte_range))

DoBindRWBuffer(u_slot, buf, byte_range) ==
    /\ buf \in live_buffers \cup {NULL}
    /\ Step([Op("BindRWBuffer") EXCEPT !.slot = u_slot, !.buf = buf, !.range = byte_range],
            BindRWBuffer(Dev, u_slot, buf, byte_range))

\* UpdateRootArguments dereferences every bound buffer: the call is made only
\* while all of them exist.
DoDispatchComputeShader(group_count, o) ==
    /\ Len(group_count) = 3
    /\ "S" \in live_shaders
    /\ \A b \in Buffers \ live_buffers : ~IsBufferBound(Dev, b)
    /\ Step([Op("DispatchComputeShader") EXCEPT !.group_count = group_count],
            DispatchComputeShader(Dev, group_count, o))

DoCreateBufferFromMemory(desc, initial_data, native_ok, survives) ==
    /\ ~created.out
    /\ Step([Op("CreateBufferFromMemory") EXCEPT !.data = initial_data],
            CreateBufferFromMemory(Dev, desc, initial_data, native_ok, survives))

DoDestroyCreated ==
    /\ created.out
    /\ Step(Op("DestroyCreated"), Ret(DestroyCreated(Dev), kSuccess))

DoDestroyBuffer(buf, o) ==
    /\ buf \in live_buffers
    /\ Step([Op("DestroyBuffer") EXCEPT !.buf = buf], DestroyBuffer(Dev, buf, o))

DoDestroyShader(shader, o) ==
    /\ shader \in live_shaders
    /\ Step([Op("DestroyShader") EXCEPT !.buf = shader], DestroyShader(Dev, shader, o))

DoDestroyDevice(o) ==
    /\ o.fail \in FailPoints
    /\ Step(Op("DestroyDevice"), DestroyDevice(Dev, o))

\* The GPU finishes the oldest submitted list.
\* EnsureCommandListState, as each public operation calls it first.
DoEnsureCommandListState(desired_state, timeout_milliseconds, o) ==
    /\ o.fail \in FailPoints
    /\ Step([Op("EnsureCommandListState") EXCEPT !.desired = desired_state,
                                                 !.timeout = timeout_milliseconds],
            EnsureCommandListState(Dev, desired_state, timeout_milliseconds, o))

GpuComplete ==
    /\ gpu_queue # <<>>
    /\ Step(Op("GpuComplete"), Ret(GpuStep(Dev), kSuccess))

\* ------------------------------------------------------------------------
\* Inputs
\* ------------------------------------------------------------------------
NoFail == {Oracle("none", TRUE, TRUE)}
\* the GPU may or may not reach the fence within a bounded timeout
Timing == {Oracle("none", g, TRUE) : g \in BOOLEAN}
\* resetting the allocator of a list that is still in flight may fail
Resetting == {Oracle("none", TRUE, r) : r \in BOOLEAN}
AnyFail == {Oracle(f, g, TRUE) : f \in FailPoints, g \in BOOLEAN}
CommandFlags == {0, kCommandFlagDontWait}
kBoundedTimeout == 16
Timeouts == {0, kBoundedTimeout, kTimeoutInfinite}
CpuUsageFlags == {{"CpuRead"}, {"CpuSequentialWrite"}}
DataOfLen(n) == [1 .. n -> Values]
Ones(n) == [i \in 1 .. n |-> 1]

\* ------------------------------------------------------------------------
\* Spec: synchronisation of CPU accesses with the GPU.  Copies U -> R give
\* the GPU a read of U and a write of R; the CPU maps, reads, writes,
\* submits and waits with every flag and timeout.
\* ------------------------------------------------------------------------
NextMap ==
    \E buf \in {"U", "R"}, f \in CpuUsageFlags, cf \in CommandFlags, o \in NoFail :
        DoMapBuffer(buf, kFullRange, f, cf, o)
NextUnmap == \E buf \in {"U", "R"} : DoUnmapBuffer(buf)
NextRead ==
    \E cf \in CommandFlags, o \in NoFail : DoReadBufferToMemory("R", kFullRange, cf, o)
NextWrite ==
    \E cf \in CommandFlags, o \in NoFail : DoWriteMemoryToBuffer(Ones(2), "U", 0, cf, o)
NextSubmit == \E o \in NoFail : DoSubmitPendingCommands(o)
NextWait == \E t \in Timeouts, o \in Timing : DoWaitForGPU(t, o)
NextCopy == \E o \in Resetting : DoCopyBuffer("U", "R", o)

Next ==
    \/ NextMap
    \/ NextUnmap
    \/ NextRead
    \/ NextWrite
    \/ NextSubmit
    \/ NextWait
    \/ NextCopy
    \/ GpuComplete

Spec == Init /\ [][Next]_vars

\* ------------------------------------------------------------------------
\* SpecRoundTrip: data written to U, copied to R and read back, after any
\* history of submissions, waits with every timeout and GPU completions.
\* ------------------------------------------------------------------------
ByteOffsets == {0, 4}

RtWrite ==
    \E n \in 1 .. 2, off \in ByteOffsets, o \in NoFail :
        \E data \in DataOfLen(n) : DoWriteMemoryToBuffer(data, "U", off, 0, o)
RtCopyRegion ==
    \E off2 \in ByteOffsets, o \in NoFail :
        /\ round_trip.phase = 1
        /\ DoCopyBufferRegion("U", Range(round_trip.off, 4 * Len(round_trip.data)), "R", off2, o)
RtRead ==
    \E o \in NoFail :
        /\ round_trip.phase = 2
        /\ DoReadBufferToMemory("R", Range(round_trip.off2, 4 * Len(round_trip.data)), 0, o)
RtSubmit == \E o \in NoFail : DoSubmitPendingCommands(o)
RtWait == \E t \in Timeouts, o \in Timing : DoWaitForGPU(t, o)

NextRoundTrip ==
    \/ RtWrite
    \/ RtCopyRegion
    \/ RtRead
    \/ RtSubmit
    \/ RtWait
    \/ GpuComplete

SpecRoundTrip == Init /\ [][NextRoundTrip]_vars

\* ------------------------------------------------------------------------
\* SpecFail: the lifecycle with every native call of it failing or not.
\* ------------------------------------------------------------------------
Faulty == AnyFail \cup Resetting

FailCopy == \E o \in Faulty : DoCopyBuffer("U", "R", o)
FailRead == \E cf \in CommandFlags, o \in Faulty : DoReadBufferToMemory("R", kFullRange, cf, o)
FailSubmit == \E o \in Faulty : DoSubmitPendingCommands(o)
FailWait == \E t \in Timeouts, o \in Faulty : DoWaitForGPU(t, o)

NextFail ==
    \/ FailCopy
    \/ FailRead
    \/ FailSubmit
    \/ FailWait
    \/ GpuComplete

SpecFail == Init /\ [][NextFail]_vars

\* ------------------------------------------------------------------------
\* SpecBind: the binding cache and the descriptors a dispatch allocates, over
\* several recording episodes.
\* ------------------------------------------------------------------------
RangesOf(buf) == {kFullRange, Range(0, GetSize(buf))}

BindCbv == \E r \in RangesOf("C") : DoBindConstantBuffer(0, "C", r)
BindSrv == \E buf \in {"U", "D"} : \E r \in RangesOf(buf) : DoBindBuffer(0, buf, r)
BindUav == \E r \in RangesOf("D") : DoBindRWBuffer(0, "D", r)
Unbind == DoBindBuffer(0, NULL, kFullRange)
BindDispatch == \E o \in NoFail : DoDispatchComputeShader(<<1, 1, 1>>, o)
BindWait == \E o \in NoFail : DoWaitForGPU(kTimeoutInfinite, o)

NextBind ==
    \/ BindCbv
    \/ BindSrv
    \/ BindUav
    \/ Unbind
    \/ BindDispatch
    \/ BindWait

SpecBind == Init /\ [][NextBind]_vars

\* ------------------------------------------------------------------------
\* SpecBarrier: the Upload buffer U and the Default buffer D used in several
\* states (copy source, copy destination, shader resource, unordered access)
\* within one list.
\* ------------------------------------------------------------------------
BarrierBindSrv == \E buf \in {"U", "D", NULL} : DoBindBuffer(0, buf, kFullRange)
BarrierBindUav == DoBindRWBuffer(0, "D", kFullRange)
BarrierDispatch == \E o \in NoFail : DoDispatchComputeShader(<<1, 1, 1>>, o)
BarrierCopy ==
    \E o \in NoFail :
        \/ DoCopyBuffer("U", "D", o)
        \/ DoCopyBuffer("D", "R", o)
BarrierWait == \E o \in NoFail : DoWaitForGPU(kTimeoutInfinite, o)

NextBarrier ==
    \/ BarrierBindSrv
    \/ BarrierBindUav
    \/ BarrierDispatch
    \/ BarrierCopy
    \/ BarrierWait

SpecBarrier == Init /\ [][NextBarrier]_vars

\* ------------------------------------------------------------------------
\* SpecDispatch: dispatches with every combination of zero, valid, largest
\* valid and too large group counts, while recording and while executing.
\* ------------------------------------------------------------------------
GroupCounts ==
    [1 .. 3 -> {0, 1, UINT16_MAX + 1}] \cup {<<UINT16_MAX, UINT16_MAX, UINT16_MAX>>}

DispatchAny == \E gc \in GroupCounts, o \in NoFail : DoDispatchComputeShader(gc, o)
DispatchBind == \E buf \in {"D", NULL} : DoBindRWBuffer(0, buf, kFullRange)
DispatchSubmit == \E o \in NoFail : DoSubmitPendingCommands(o)

NextDispatch ==
    \/ DispatchAny
    \/ DispatchBind
    \/ DispatchSubmit
    \/ GpuComplete

SpecDispatch == Init /\ [][NextDispatch]_vars

\* ------------------------------------------------------------------------
\* SpecInvalid: calls with invalid arguments among valid ones: binding a
\* buffer without the shader flag, mapping an empty range, copying from a
\* readback buffer, clearing past the end, reading a buffer that has no CPU
\* access, dispatching with a bound buffer mapped.
\* ------------------------------------------------------------------------
InvBind ==
    \/ DoBindConstantBuffer(0, "C", kFullRange)
    \/ \E buf \in {"U", "R"} : DoBindBuffer(0, buf, kFullRange)
InvMap ==
    \E byte_range \in {kFullRange, kEmptyRange}, o \in NoFail :
        DoMapBuffer("U", byte_range, {"CpuSequentialWrite"}, 0, o)
InvUnmap == DoUnmapBuffer("U")
InvDispatch == \E o \in NoFail : DoDispatchComputeShader(<<1, 1, 1>>, o)
InvClear ==
    \E first \in {0, 1}, o \in NoFail :
        DoClearBufferToUintValues("D", Ones(4), Range(first, 2), o)
InvCopy == \E o \in NoFail : DoCopyBuffer("R", "U", o)
InvRead == \E o \in NoFail : DoReadBufferToMemory("D", kFullRange, 0, o)
InvSubmit == \E o \in NoFail : DoSubmitPendingCommands(o)

NextInvalid ==
    \/ InvBind
    \/ InvMap
    \/ InvUnmap
    \/ InvDispatch
    \/ InvClear
    \/ InvCopy
    \/ InvRead
    \/ InvSubmit
    \/ GpuComplete

SpecInvalid == Init /\ [][NextInvalid]_vars

\* ------------------------------------------------------------------------
\* SpecZero: every operation with a length, called with length zero and with
\* a positive length.
\* ------------------------------------------------------------------------
ZeroRead ==
    \E count \in {0, 4}, o \in NoFail : DoReadBufferToMemory("R", Range(0, count), 0, o)
ZeroWrite == \E n \in {0, 1}, o \in NoFail : DoWriteMemoryToBuffer(Ones(n), "U", 0, 0, o)
ZeroCopyRegion ==
    \E count \in {0, 4}, o \in NoFail : DoCopyBufferRegion("U", Range(0, count), "R", 0, o)
ZeroClear ==
    \E count \in {0, 2}, o \in NoFail :
        \/ DoClearBufferToUintValues("D", Ones(4), Range(0, count), o)
        \/ DoClearBufferToFloatValues("D", Ones(4), Range(0, count), o)
ZeroDispatch ==
    \E gc \in {<<0, 1, 1>>, <<1, 1, 1>>}, o \in NoFail : DoDispatchComputeShader(gc, o)
ZeroSubmit == \E o \in NoFail : DoSubmitPendingCommands(o)

NextZero ==
    \/ ZeroRead
    \/ ZeroWrite
    \/ ZeroCopyRegion
    \/ ZeroClear
    \/ ZeroDispatch
    \/ ZeroSubmit
    \/ GpuComplete

SpecZero == Init /\ [][NextZero]_vars

\* ------------------------------------------------------------------------
\* SpecMutex: buffers are bound, mapped, unmapped and destroyed in any order.
\* ------------------------------------------------------------------------
MutexBindUav == \E buf \in {"D", "W", NULL} : DoBindRWBuffer(0, buf, kFullRange)
MutexBindSrv == \E buf \in {"U", NULL} : DoBindBuffer(0, buf, kFullRange)
MutexMap ==
    \E buf \in {"U", "D", "W"}, f \in CpuUsageFlags, o \in NoFail :
        DoMapBuffer(buf, kFullRange, f, 0, o)
MutexUnmap == \E buf \in {"U", "D", "W"} : DoUnmapBuffer(buf)
MutexDestroy == \E buf \in {"U", "D", "W"}, o \in NoFail : DoDestroyBuffer(buf, o)

NextMutex ==
    \/ MutexBindUav
    \/ MutexBindSrv
    \/ MutexMap
    \/ MutexUnmap
    \/ MutexDestroy

SpecMutex == Init /\ [][NextMutex]_vars

\* ------------------------------------------------------------------------
\* SpecDestroy: buffers and the device are destroyed while copies U -> R are
\* recorded, submitted, waited for and executed.
\* ------------------------------------------------------------------------
DestroyCopy == \E o \in NoFail : DoCopyBuffer("U", "R", o)
DestroySubmit == \E o \in NoFail : DoSubmitPendingCommands(o)
DestroyWait == \E t \in {0, kTimeoutInfinite}, o \in Timing : DoWaitForGPU(t, o)
DestroyBuf == \E buf \in {"U", "R", "D"}, o \in NoFail : DoDestroyBuffer(buf, o)
DestroyDev == \E o \in NoFail : DoDestroyDevice(o)

NextDestroy ==
    \/ DestroyCopy
    \/ DestroySubmit
    \/ DestroyWait
    \/ DestroyBuf
    \/ DestroyDev
    \/ GpuComplete

SpecDestroy == Init /\ [][NextDestroy]_vars

\* ------------------------------------------------------------------------
\* SpecCreate: one buffer at a time is created from every description over
\* the flag bits, sizes, element formats and structure sizes below, with and
\* without initial data, and destroyed again.
\* ------------------------------------------------------------------------
AllBufferFlags ==
    kBufferUsageMaskCpu \cup kBufferUsageMaskCopy \cup kBufferUsageMaskShader
        \cup kBufferTypeMask
CreateDescs ==
    [flags : SUBSET AllBufferFlags, size : {0, 4, 6, 8}, element_bits : {0, 12, 64},
     structure_size : {0, 6, 8}]
CreateData == {<<>>, <<1>>, <<1, 0, 1>>}

CreateAny ==
    /\ created = NotCreated
    /\ \E desc \in CreateDescs, initial_data \in CreateData, native_ok, survives \in BOOLEAN :
           DoCreateBufferFromMemory(desc, initial_data, native_ok, survives)

NextCreate ==
    \/ CreateAny
    \/ DoDestroyCreated

SpecCreate == Init /\ [][NextCreate]_vars

\* ------------------------------------------------------------------------
\* SpecWrite: WriteMemoryToBuffer at offsets 0 and 4 into the Upload buffer U
\* and into the Default buffer W, which is created with CpuSequentialWrite.
\* ------------------------------------------------------------------------
WriteData == DataOfLen(1) \cup {Ones(2)}
WriteAny ==
    \E src_data \in WriteData, dst_buf \in {"U", "W"}, dst_byte_offset \in {0, 4},
       o \in NoFail :
        DoWriteMemoryToBuffer(src_data, dst_buf, dst_byte_offset, 0, o)
WriteSubmit == \E o \in NoFail : DoSubmitPendingCommands(o)
WriteWait == \E o \in NoFail : DoWaitForGPU(kTimeoutInfinite, o)

NextWriteOffset ==
    \/ WriteAny
    \/ WriteSubmit
    \/ WriteWait
    \/ GpuComplete

SpecWrite == Init /\ [][NextWriteOffset]_vars

\* ------------------------------------------------------------------------
\* SpecUse: the Default buffer D and the Upload buffer U are used as copy
\* source, copy destination, cleared view, shader resource and unordered
\* access view, within one list and across lists.
\* ------------------------------------------------------------------------
UseClear == \E o \in NoFail : DoClearBufferToUintValues("D", Ones(4), Range(0, 2), o)
UseCopy ==
    \E o \in NoFail :
        \/ DoCopyBuffer("U", "D", o)
        \/ DoCopyBuffer("D", "R", o)
UseBindSrv == \E buf \in {"U", "D"} : DoBindBuffer(0, buf, kFullRange)
UseBindUav == DoBindRWBuffer(0, "D", kFullRange)
UseDispatch == \E o \in NoFail : DoDispatchComputeShader(<<1, 1, 1>>, o)
UseWait == \E o \in NoFail : DoWaitForGPU(kTimeoutInfinite, o)

NextUse ==
    \/ UseClear
    \/ UseCopy
    \/ UseBindSrv
    \/ UseBindUav
    \/ UseDispatch
    \/ UseWait

SpecUse == Init /\ [][NextUse]_vars

\* ------------------------------------------------------------------------
\* SpecEnsure: EnsureCommandListState from every state, to every desired
\* state, with every timeout, every timing of the GPU and every failure of
\* a native call; copies fill the list.
\* ------------------------------------------------------------------------
CommandListStates == {"kNone", "kRecording", "kExecuting"}

EnsureCopy == \E o \in NoFail : DoCopyBuffer("U", "R", o)
EnsureAny ==
    \E desired \in CommandListStates : \E t \in Timeouts : \E o \in AnyFail :
        DoEnsureCommandListState(desired, t, o)
NextEnsure == EnsureCopy \/ EnsureAny \/ GpuComplete
SpecEnsure == Init /\ [][NextEnsure]_vars

\* ------------------------------------------------------------------------
\* SpecDontWait: immediate writes to the Default buffer D with and without
\* kCommandFlagDontWait, copies, clears and dispatches, while earlier lists
\* are submitted and the GPU finishes them sooner or later.
\* ------------------------------------------------------------------------
DontWaitWrite ==
    \E cf \in CommandFlags : \E o \in Timing : DoWriteMemoryToBuffer(Ones(1), "D", 0, cf, o)
DontWaitCopy == \E o \in NoFail : DoCopyBuffer("U", "D", o)
DontWaitClear == \E o \in NoFail : DoClearBufferToUintValues("D", Ones(4), Range(0, 2), o)
DontWaitDispatch == \E o \in NoFail : DoDispatchComputeShader(<<1, 1, 1>>, o)
DontWaitSubmit == \E o \in NoFail : DoSubmitPendingCommands(o)
DontWaitWait == \E t \in Timeouts : \E o \in Timing : DoWaitForGPU(t, o)
NextDontWait ==
    \/ DontWaitWrite
    \/ DontWaitCopy
    \/ DontWaitClear
    \/ DontWaitDispatch
    \/ DontWaitSubmit
    \/ DontWaitWait
    \/ GpuComplete
SpecDontWait == Init /\ [][NextDontWait]_vars

\* ------------------------------------------------------------------------
\* SpecRoles: the Default buffer D in several roles of one command: bound for
\* reading and for writing at once, source and destination of one copy.
\* ------------------------------------------------------------------------
RolesBindSrv == \E buf \in {"D", NULL} : DoBindBuffer(0, buf, kFullRange)
RolesBindUav == \E buf \in {"D", NULL} : DoBindRWBuffer(0, buf, kFullRange)
RolesCopy ==
    \E o \in NoFail :
        \/ DoCopyBuffer("U", "D", o)
        \/ DoCopyBuffer("D", "D", o)
        \/ DoCopyBufferRegion("D", Range(0, 4), "D", 4, o)
RolesDispatch == \E o \in NoFail : DoDispatchComputeShader(<<1, 1, 1>>, o)
RolesWait == \E o \in NoFail : DoWaitForGPU(kTimeoutInfinite, o)
NextRoles == RolesBindSrv \/ RolesBindUav \/ RolesCopy \/ RolesDispatch \/ RolesWait
SpecRoles == Init /\ [][NextRoles]_vars

\* ------------------------------------------------------------------------
\* SpecShader: the shader is used by dispatches and destroyed while the list
\* that holds them is being recorded, is executing or has finished.
\* ------------------------------------------------------------------------
ShaderDispatch == \E o \in NoFail : DoDispatchComputeShader(<<1, 1, 1>>, o)
ShaderCopy == \E o \in NoFail : DoCopyBuffer("U", "R", o)
ShaderSubmit == \E o \in NoFail : DoSubmitPendingCommands(o)
ShaderWait == \E o \in NoFail : DoWaitForGPU(kTimeoutInfinite, o)
ShaderDestroy == \E o \in NoFail : DoDestroyShader("S", o)
NextShader ==
    \/ ShaderDispatch
    \/ ShaderCopy
    \/ ShaderSubmit
    \/ ShaderWait
    \/ ShaderDestroy
    \/ GpuComplete
SpecShader == Init /\ [][NextShader]_vars

\* ------------------------------------------------------------------------
\* SpecMapped: copies and dispatches that touch the buffers U, R and C while
\* the user has them mapped, and while not.  (A buffer that can be cleared or
\* written immediately has the Default strategy and cannot be mapped.)
\* ------------------------------------------------------------------------
MappedMap ==
    \E o \in NoFail :
        \/ \E buf \in {"U", "C"} : DoMapBuffer(buf, kFullRange, {"CpuSequentialWrite"}, 0, o)
        \/ DoMapBuffer("R", kFullRange, {"CpuRead"}, 0, o)
MappedUnmap == \E buf \in {"U", "R", "C"} : DoUnmapBuffer(buf)
MappedBind == DoBindConstantBuffer(0, "C", kFullRange) \/ DoBindBuffer(0, "U", kFullRange)
MappedCopy ==
    \E o \in NoFail :
        \/ DoCopyBuffer("U", "R", o)
        \/ DoCopyBufferRegion("U", Range(0, 4), "R", 4, o)
MappedDispatch == \E o \in NoFail : DoDispatchComputeShader(<<1, 1, 1>>, o)
MappedWait == \E o \in NoFail : DoWaitForGPU(kTimeoutInfinite, o)
NextMapped ==
    \/ MappedMap
    \/ MappedUnmap
    \/ MappedBind
    \/ MappedCopy
    \/ MappedDispatch
    \/ MappedWait
SpecMapped == Init /\ [][NextMapped]_vars

\* ------------------------------------------------------------------------
\* SpecBindArgs: the three Bind calls with every kind of argument: slots in
\* and out of bounds, buffers with and without the usage flag and the
\* structural kind, ranges that are aligned or not, empty, inside the buffer,
\* past its end, and so large that first + count wraps; dispatches give the
\* slots their descriptors, ResetAllBindings empties them.
\* ------------------------------------------------------------------------
BindArgRanges ==
    {kFullRange, Range(4, 4), Range(2, 4), Range(0, 0), Range(0, 12),
     Range(12, SIZE_MAX), Range(4, SIZE_MAX - 3)}

BindArgsCbv ==
    \/ \E buf \in {"C", "U"} : \E r \in {kFullRange, Range(0, 128)} :
           DoBindConstantBuffer(0, buf, r)
    \/ DoBindConstantBuffer(kMaxCBVCount, "C", kFullRange)
BindArgsSrv ==
    \/ \E r \in BindArgRanges : DoBindBuffer(0, "U", r)
    \/ \E buf \in {"R", "C", NULL} : DoBindBuffer(0, buf, kFullRange)
    \/ DoBindBuffer(kMaxSRVCount, "U", kFullRange)
BindArgsUav ==
    \/ \E buf \in {"D", "U", NULL} : DoBindRWBuffer(0, buf, kFullRange)
    \/ DoBindRWBuffer(kMaxUAVCount, "D", kFullRange)
BindArgsReset == DoResetAllBindings
\* one dispatch, into the empty list
BindArgsDispatch ==
    /\ cmd_list = <<>>
    /\ \E o \in NoFail : DoDispatchComputeShader(<<1, 1, 1>>, o)
NextBindArgs ==
    \/ BindArgsCbv
    \/ BindArgsSrv
    \/ BindArgsUav
    \/ BindArgsReset
    \/ BindArgsDispatch
SpecBindArgs == Init /\ [][NextBindArgs]_vars

\* ------------------------------------------------------------------------
\* SpecMapRange: MapBuffer of U and R with byte ranges inside the buffer, past
\* its end, full ranges starting at, before and after the end, and ranges
\* whose end wraps around; copies keep the GPU busy.
\* ------------------------------------------------------------------------
MapRanges ==
    {kFullRange, Range(4, SIZE_MAX), Range(8, SIZE_MAX), Range(12, SIZE_MAX),
     Range(4, 4), Range(4, 8), Range(8, 4), Range(4, SIZE_MAX - 3), Range(0, 0)}

MapRangeMap ==
    \E r \in MapRanges : \E o \in NoFail :
        \/ DoMapBuffer("U", r, {"CpuSequentialWrite"}, 0, o)
        \/ DoMapBuffer("R", r, {"CpuRead"}, 0, o)
MapRangeUnmap == \E buf \in {"U", "R"} : DoUnmapBuffer(buf)
MapRangeCopy == \E o \in NoFail : DoCopyBuffer("U", "R", o)
MapRangeSubmit == \E o \in NoFail : DoSubmitPendingCommands(o)
NextMapRange == MapRangeMap \/ MapRangeUnmap \/ MapRangeCopy \/ MapRangeSubmit \/ GpuComplete
SpecMapRange == Init /\ [][NextMapRange]_vars

\* ------------------------------------------------------------------------
\* SpecCopyRange: CopyBufferRegion from U to R with source ranges and
\* destination offsets inside the buffers, past their ends, and so large that
\* the sums wrap around.
\* ------------------------------------------------------------------------
CopyRanges ==
    {kFullRange, Range(4, SIZE_MAX), Range(12, SIZE_MAX), Range(0, 4), Range(4, 4),
     Range(4, 8), Range(4, SIZE_MAX - 3), Range(0, SIZE_MAX - 3)}
CopyOffsets == {0, 4, 8, SIZE_MAX - 3}

CopyRangeRegion ==
    \E r \in CopyRanges : \E off \in CopyOffsets : \E o \in NoFail :
        DoCopyBufferRegion("U", r, "R", off, o)
CopyRangeWhole == \E o \in NoFail : DoCopyBuffer("U", "R", o)
NextCopyRange == CopyRangeRegion \/ CopyRangeWhole
SpecCopyRange == Init /\ [][NextCopyRange]_vars

\* ------------------------------------------------------------------------
\* SpecHeap: the descriptor heaps from the empty state to exhaustion.  A
\* clear whose element range is out of bounds advances both cursors and
\* records nothing, a dispatch that fails at a later slot advances the
\* shader-visible one: repeated, such calls take the first list to any pair
\* of cursors with invisible <= visible, which is where this specification
\* starts.  Clears and dispatches with rebound slots allocate, a wait
\* followed by a recording call resets.
\* ------------------------------------------------------------------------
HeapCursors ==
    {kStaticDescriptorCount, kMaxDescriptorCount - 1, kMaxDescriptorCount}
InitHeap ==
    \E visible \in HeapCursors : \E invisible \in HeapCursors :
        invisible <= visible /\ InitWithCursors(visible, invisible)

HeapClear ==
    \E first \in {0, 1} : \E o \in NoFail :
        DoClearBufferToUintValues("D", Ones(4), Range(first, 2), o)
HeapBind == \E r \in {kFullRange, Range(4, 4)} : DoBindBuffer(0, "U", r)
HeapDispatch == \E o \in NoFail : DoDispatchComputeShader(<<1, 1, 1>>, o)
HeapWait == \E o \in NoFail : DoWaitForGPU(kTimeoutInfinite, o)
NextHeap == HeapClear \/ HeapBind \/ HeapDispatch \/ HeapWait
SpecHeap == InitHeap /\ [][NextHeap]_vars

\* ------------------------------------------------------------------------
\* SpecNoSync: CPU accesses to buffers the GPU does not touch.  Copies U -> R
\* keep the command list Recording or Executing with tracker entries for U
\* and R, while the CPU maps, reads and writes U, R and the Upload buffer C,
\* which no recorded command uses.
\* ------------------------------------------------------------------------
NoSyncCopy == \E o \in NoFail : DoCopyBuffer("U", "R", o)
NoSyncMap ==
    \E cf \in CommandFlags, o \in Timing :
        \/ \E buf \in {"U", "C"} : DoMapBuffer(buf, kFullRange, {"CpuSequentialWrite"}, cf, o)
        \/ DoMapBuffer("R", kFullRange, {"CpuRead"}, cf, o)
NoSyncUnmap == \E buf \in {"U", "R", "C"} : DoUnmapBuffer(buf)
NoSyncRead ==
    \E cf \in CommandFlags, o \in Timing : DoReadBufferToMemory("R", Range(0, 4), cf, o)
NoSyncWrite ==
    \E buf \in {"U", "C"}, cf \in CommandFlags, o \in Timing :
        DoWriteMemoryToBuffer(Ones(1), buf, 0, cf, o)
NoSyncSubmit == \E o \in NoFail : DoSubmitPendingCommands(o)
NextNoSync ==
    \/ NoSyncCopy
    \/ NoSyncMap
    \/ NoSyncUnmap
    \/ NoSyncRead
    \/ NoSyncWrite
    \/ NoSyncSubmit
    \/ GpuComplete
SpecNoSync == Init /\ [][NextNoSync]_vars

\* ------------------------------------------------------------------------
\* SpecLive: the calling thread and the GPU as two processes.  A call that
\* reaches WaitForSingleObject with an unsignaled event puts the thread to
\* sleep (blocked); the GPU completes the submitted lists one step at a time;
\* the thread wakes when the event is signaled and the call runs on to its
\* return.  No native call fails.  The GPU makes progress (weak fairness of
\* GpuRuns) and a thread whose event is signaled is scheduled (weak
\* fairness of ThreadWakes).
\* ------------------------------------------------------------------------
Zeros(n) == [i \in 1 .. n |-> 0]
LiveOps ==
    {[Op("WaitForGPU") EXCEPT !.timeout = t] : t \in {0, kTimeoutInfinite}}
    \cup {Op("SubmitPendingCommands"),
          [Op("CopyBuffer") EXCEPT !.src = "U", !.buf = "R"],
          [Op("ClearBufferToUintValues") EXCEPT !.buf = "D", !.data = Zeros(4),
                                                !.range = Range(0, 2)],
          [Op("DispatchComputeShader") EXCEPT !.group_count = <<1, 1, 1>>],
          [Op("MapBuffer") EXCEPT !.buf = "R", !.range = kFullRange, !.data = {"CpuRead"}],
          [Op("UnmapBuffer") EXCEPT !.buf = "R"],
          [Op("ReadBufferToMemory") EXCEPT !.buf = "R", !.range = Range(0, 4)],
          [Op("WriteMemoryToBuffer") EXCEPT !.buf = "U", !.data = Zeros(1)]}

\* The public function op names, called with the arguments op holds.
Invoke(d, op, o) ==
    CASE op.name = "WaitForGPU" -> WaitForGPU(d, op.timeout, o)
      [] op.name = "SubmitPendingCommands" -> SubmitPendingCommands(d, o)
      [] op.name = "CopyBuffer" -> CopyBuffer(d, op.src, op.buf, o)
      [] op.name = "ClearBufferToUintValues" ->
             ClearBufferToUintValues(d, op.buf, op.data, op.range, o)
      [] op.name = "DispatchComputeShader" -> DispatchComputeShader(d, op.group_count, o)
      [] op.name = "MapBuffer" -> MapBuffer(d, op.buf, op.range, op.data, op.flags, o)
      [] op.name = "UnmapBuffer" -> Ret(UnmapBuffer(d, op.buf), kSuccess)
      [] op.name = "ReadBufferToMemory" ->
             ReadBufferToMemory(d, op.buf, op.range, op.flags, o)
      [] op.name = "WriteMemoryToBuffer" ->
             WriteMemoryToBuffer(d, op.data, op.buf, op.off, op.flags, o)

\* The device while the thread sleeps in WaitForCommandExecution: a list that
\* was Recording has been submitted, and the event is registered for
\* submitted_fence_value_.
SleepPoint(d, o) ==
    LET d1 == IF d.cls = "kRecording" THEN ExecuteRecordedCommands(d, o).d ELSE d
    IN [SetEventOnCompletion(d1, d1.submitted) EXCEPT !.blocked = TRUE, !.trace = <<>>]

\* WaitForSingleObject returns WAIT_OBJECT_0, the event resets itself, and
\* WaitForCommandExecution runs to its end.
Woken(d) ==
    Traced("WaitForSingleObject", d,
           Ret(WaitForCommandExecution_Done([d EXCEPT !.event = FALSE]), kSuccess)).d

\* The thread is not inside a call; a list holds the commands of one call.
LiveCallable(op) ==
    /\ ~blocked
    /\ op.name = "UnmapBuffer" => is_user_mapped_[op.buf]
    /\ op.name \in {"CopyBuffer", "ClearBufferToUintValues", "DispatchComputeShader"}
           => (cmd_list = <<>> \/ list_closed)

\* A call that returns without sleeping.
LiveReturn ==
    \E op \in LiveOps, o \in Timing :
        /\ LiveCallable(op)
        /\ ~Invoke(Dev, op, o).d.blocked
        /\ Step(op, Invoke(Dev, op, o))

\* A call that goes to sleep on the fence event; result keeps the value of the
\* call before until this one returns.
LiveSleep ==
    \E op \in LiveOps, o \in NoFail :
        /\ LiveCallable(op)
        /\ Invoke(Dev, op, o).d.blocked
        /\ Step(op, Ret(SleepPoint(Dev, o), result))

\* The sleeping call wakes and runs on: the list has left Executing, and what
\* is left of the call is what it does when entered in that state.
LiveWake ==
    \E o \in NoFail :
        /\ blocked
        /\ fence_event_
        /\ Step(last_op, Invoke(Woken(Dev), last_op, o))

\* The GPU completes a list; a sleeping call stays the call in progress.
LiveGpu ==
    /\ gpu_queue # <<>>
    /\ Step(IF blocked THEN last_op ELSE Op("GpuComplete"),
            Ret([GpuStep(Dev) EXCEPT !.blocked = blocked], IF blocked THEN result ELSE kSuccess))

NextLive ==
    \/ LiveReturn
    \/ LiveSleep
    \/ LiveWake
    \/ LiveGpu
\* The steps of NextLive that shorten the queue of the GPU are those of
\* LiveGpu, and the steps that end a sleep are those of LiveWake.
GpuRuns == gpu_queue # <<>> /\ gpu_queue' = Tail(gpu_queue)
ThreadWakes == blocked /\ fence_event_ /\ blocked' = FALSE
SpecLive == Init /\ [][NextLive]_vars /\ WF_gpu_queue(GpuRuns) /\ WF_blocked(ThreadWakes)

\* ------------------------------------------------------------------------
\* SpecSubmit: SubmitPendingCommands in every state of the list, with
\* buffers bound, descriptors allocated and tracker entries in place.
\* ------------------------------------------------------------------------
SubmitBind == \E buf \in {"U", NULL} : DoBindBuffer(0, buf, kFullRange)
SubmitDispatch == \E o \in NoFail : DoDispatchComputeShader(<<1, 1, 1>>, o)
SubmitSubmit == \E o \in NoFail : DoSubmitPendingCommands(o)
SubmitWait == \E t \in {0, kTimeoutInfinite}, o \in NoFail : DoWaitForGPU(t, o)
NextSubmitting ==
    \/ SubmitBind
    \/ SubmitDispatch
    \/ SubmitSubmit
    \/ SubmitWait
    \/ GpuComplete
SpecSubmit == Init /\ [][NextSubmitting]_vars

\* ------------------------------------------------------------------------
\* Claims
\* ------------------------------------------------------------------------
\* The GPU accesses a CPU mapping of buf conflicts with: reads and writes for
\* a buffer mapped for writing, writes for a buffer mapped for reading.
ConflictingUsage(buf) ==
    IF "CpuSequentialWrite" \in GetFlags(buf) THEN {"Write", "Read"} ELSE {"Write"}

\* C1: no buffer is user-mapped while the usage tracker holds a conflicting
\* access to it from a command list that is Recording or Executing.
C1_NoCpuGpuRace ==
    \A b \in Buffers :
        is_user_mapped_[b] =>
            ~(command_list_state_ \in {"kRecording", "kExecuting"}
              /\ IsUsed(Dev, b, ConflictingUsage(b)))

\* What the buffers hold once the GPU has run every list submitted so far and
\* the commands recorded into the open list.
PendingCmds == IF list_closed THEN <<>> ELSE cmd_list
RECURSIVE RunQueue(_, _)
RunQueue(m, queue) ==
    IF queue = <<>> THEN m ELSE RunQueue(ExecCmds(m, Head(queue).cmds), Tail(queue))
MemAfterGpu == ExecCmds(RunQueue(mem, gpu_queue), PendingCmds)

TrackerEmpty == \A b \in Buffers : ~resource_usage_map_[b].used

\* C2: a ReadBufferToMemory or MapBuffer without kCommandFlagDontWait that
\* succeeds on a buffer the tracker holds a GPU write of returns with the list
\* submitted and finished: the state is Idle, the tracker is empty, the fence
\* has reached the submitted value, and the bytes are the ones the GPU wrote.
C2_HazardForcing ==
    [][(/\ last_op'.name \in {"ReadBufferToMemory", "MapBuffer"}
        /\ last_op'.flags = 0
        /\ result' = kSuccess
        /\ IsUsed(Dev, last_op'.buf, {"Write"}))
       => (/\ command_list_state_' = "kNone"
           /\ TrackerEmpty'
           /\ fence_completed' >= submitted_fence_value_'
           /\ mem'[last_op'.buf] = MemAfterGpu[last_op'.buf]
           /\ (last_op'.name = "ReadBufferToMemory" =>
                  read_out' = MemRead(MemAfterGpu, last_op'.buf,
                                      LimitRange(last_op'.range, GetSize(last_op'.buf)))))]_vars

\* C3: whenever the command list is Idle (kNone), the fence has reached
\* submitted_fence_value_: every submitted list has finished on the GPU.
C3_IdleImpliesFenceReached ==
    command_list_state_ = "kNone" => fence_completed >= submitted_fence_value_

\* C4: WaitForGPU with a timeout of 0, or with a bounded timeout that elapses,
\* called while the list is Executing and the fence is not reached, returns
\* kNotReady without blocking and leaves the state Executing and the tracker
\* untouched; and WaitForGPU returns kSuccess only when the state is Idle.
C4_WaitForGpuPoll ==
    [][last_op'.name = "WaitForGPU" =>
         /\ (/\ command_list_state_ = "kExecuting"
              /\ fence_completed < submitted_fence_value_
              /\ (last_op'.timeout = 0
                   \/ (last_op'.timeout # kTimeoutInfinite
                       /\ fence_completed' < submitted_fence_value_')))
             => (/\ result' = kNotReady
                 /\ ~blocked'
                 /\ command_list_state_' = "kExecuting"
                 /\ resource_usage_map_' = resource_usage_map_)
         /\ (result' = kSuccess => command_list_state_' = "kNone")]_vars

\* The GPU accesses an operation on op.buf has to wait for.
ConflictOf(op) ==
    CASE op.name = "ReadBufferToMemory" -> {"Write"}
      [] op.name = "WriteMemoryToBuffer" -> {"Write", "Read"}
      [] OTHER -> ConflictingUsage(op.buf)

\* C5: with kCommandFlagDontWait, MapBuffer, ReadBufferToMemory and
\* WriteMemoryToBuffer on a buffer with a conflicting GPU access whose fence is
\* not reached return kNotReady at once: the call does not block, the buffer
\* stays unmapped, no byte is copied, no command is recorded and the submitted
\* work is still in flight (state Executing).
C5_DontWaitNeverBlocks ==
    [][(/\ last_op'.name \in {"MapBuffer", "ReadBufferToMemory", "WriteMemoryToBuffer"}
        /\ last_op'.flags = kCommandFlagDontWait
        /\ ~is_user_mapped_[last_op'.buf]
        /\ (last_op'.name = "MapBuffer" => last_op'.data \subseteq GetFlags(last_op'.buf))
        /\ IsUsed(Dev, last_op'.buf, ConflictOf(last_op'))
        /\ \/ command_list_state_ = "kRecording"
           \/ command_list_state_ = "kExecuting" /\ fence_completed < submitted_fence_value_)
       => (/\ result' = kNotReady
           /\ ~blocked'
           /\ ~is_user_mapped_'[last_op'.buf]
           /\ mem' = mem
           /\ read_out' = <<>>
           /\ Len(cmd_list') = Len(cmd_list)
           /\ command_list_state_' = "kExecuting")]_vars

LegalTransitions ==
    { <<"ExecuteRecordedCommands", "kRecording", "kExecuting">>,
      <<"WaitForCommandExecution", "kExecuting", "kNone">>,
      <<"ResetCommandListForRecording", "kNone", "kRecording">> }

\* The lifecycle calls of one operation, in order, take the state from the one
\* before the operation to the one after it.
TraceLinksStates(before, trace, after) ==
    IF trace = <<>> THEN after = before
    ELSE /\ trace[1].from = before
         /\ trace[Len(trace)].to = after
         /\ \A i \in 1 .. Len(trace) - 1 : trace[i + 1].from = trace[i].to

\* C6: command_list_state_ is Recording after initialisation; over every
\* operation, each change of it is made by one lifecycle call and is one of
\* Recording->Executing (ExecuteRecordedCommands), Executing->Idle
\* (WaitForCommandExecution), Idle->Recording (ResetCommandListForRecording);
\* a lifecycle call that does not succeed leaves it unchanged.
C6_LinearLifecycle ==
    /\ command_list_state_ = "kRecording"
    /\ [][/\ TraceLinksStates(command_list_state_, state_trace', command_list_state_')
          /\ \A i \in 1 .. Len(state_trace') :
                /\ (state_trace'[i].res # kSuccess => state_trace'[i].to = state_trace'[i].from)
                /\ (state_trace'[i].to # state_trace'[i].from =>
                       <<state_trace'[i].fn, state_trace'[i].from, state_trace'[i].to>>
                           \in LegalTransitions)]_vars

\* An operation that moved the state and then had a lifecycle call fail.
C6_FailedSubStepAfterTransition ==
    \E i \in 1 .. Len(state_trace) - 1 :
        /\ state_trace[i].to # state_trace[i].from
        /\ Failed(state_trace[i + 1].res)
        /\ command_list_state_ = state_trace[i].to

\* C7: WriteMemoryToBuffer(data, U, off), CopyBufferRegion(U, {off, N}, R, off2)
\* and ReadBufferToMemory(R, {off2, N}) on an Upload buffer U and a Readback
\* buffer R, N a positive multiple of 4 and the offsets in range, succeed at
\* every step and the read yields data, whatever the state before the sequence.
C7_RoundTrip ==
    (round_trip.phase >= 1 /\ last_op.name # "GpuComplete") =>
        /\ result = kSuccess
        /\ (round_trip.phase = 3 => read_out = round_trip.data)

\* The bindings of the three root-signature classes.
Bindings == [cbv |-> cbv_bindings_, srv |-> srv_bindings_, uav |-> uav_bindings_]

ClassOf(op) ==
    CASE op.name = "BindConstantBuffer" -> "cbv"
      [] op.name = "BindBuffer" -> "srv"
      [] op.name = "BindRWBuffer" -> "uav"

BindOps == {"BindConstantBuffer", "BindBuffer", "BindRWBuffer"}

\* The slots that hold a buffer and no descriptor yet.
SlotsWithoutDescriptor ==
    { cs \in {"cbv", "srv", "uav"} \X (0 .. kMaxCBVCount - 1) :
        /\ cs[2] \in DOMAIN Bindings[cs[1]]
        /\ Bindings[cs[1]][cs[2]].buffer # NULL
        /\ Bindings[cs[1]][cs[2]].descriptor_index = UINT32_MAX }

\* C8: binding the same non-null buffer and normalised range to a slot that
\* already holds it returns kFalse and changes nothing, the cached descriptor
\* index included; a dispatch recorded into the open list allocates one
\* shader-visible descriptor for each bound slot without one and keeps the
\* descriptor of every other slot.
C8_IdempotentRebind ==
    [][/\ (/\ last_op'.name \in BindOps
           /\ last_op'.buf # NULL
           /\ Bindings[ClassOf(last_op')][last_op'.slot].buffer = last_op'.buf
           /\ Bindings[ClassOf(last_op')][last_op'.slot].byte_range
                  = LimitRange(last_op'.range, GetSize(last_op'.buf)))
          => (result' = kFalse /\ devvars' = devvars)
       /\ (/\ last_op'.name = "DispatchComputeShader"
           /\ result' = kSuccess
           /\ command_list_state_ = "kRecording")
          => (/\ vis_next' = vis_next + Cardinality(SlotsWithoutDescriptor)
              /\ \A c \in {"cbv", "srv", "uav"} : \A t \in DOMAIN Bindings[c] :
                    Bindings[c][t].descriptor_index # UINT32_MAX
                        => Bindings'[c][t] = Bindings[c][t])]_vars

\* A rebind of a binding that already has its descriptor.
C8_RebindKeepsDescriptor ==
    /\ last_op.name \in BindOps
    /\ last_op.buf # NULL
    /\ result = kFalse
    /\ Bindings[ClassOf(last_op)][last_op.slot].buffer = last_op.buf
    /\ Bindings[ClassOf(last_op)][last_op.slot].descriptor_index # UINT32_MAX
    /\ command_list_state_ = "kRecording"

IsBarrier(c) == c.op \in {"TransitionBarrier", "UAVBarrier"}

\* The states the buffers bound to the slots of a class are used in, in slot
\* order, restricted to buffer b.
BoundStates(class, b) ==
    LET n == SlotCount(class)
        all == [i \in 1 .. n |-> Bindings[class][i - 1].buffer]
        Is(x) == x = b
    IN [i \in 1 .. Len(SelectSeq(all, Is)) |-> StateForClass(class)]

\* The states operation op uses buffer b in, in the order of use.
StatesUsed(op, b) ==
    CASE op.name = "CopyBuffer" ->
             (IF op.src = b THEN <<"COPY_SOURCE">> ELSE <<>>)
                 \o (IF op.buf = b THEN <<"COPY_DEST">> ELSE <<>>)
      [] op.name = "DispatchComputeShader" ->
             BoundStates("cbv", b) \o BoundStates("srv", b) \o BoundStates("uav", b)
      [] OTHER -> <<>>

\* The transitions between consecutive different states of a sequence of uses
\* that follows a use in state last.
RECURSIVE Transitions(_, _)
Transitions(last, states) ==
    IF states = <<>> THEN <<>>
    ELSE (IF Head(states) # last THEN <<<<last, Head(states)>>>> ELSE <<>>)
             \o Transitions(Head(states), Tail(states))

\* The transition barriers for buffer b among the commands cmds.
TransitionBarriersOf(cmds, b) ==
    LET Is(c) == c.op = "TransitionBarrier" /\ c.buf = b
        sel == SelectSeq(cmds, Is)
    IN [i \in 1 .. Len(sel) |-> <<sel[i].before, sel[i].after>>]

WriteStates == {"COPY_DEST", "UNORDERED_ACCESS"}

\* C9: no barrier of any kind is ever recorded for an Upload or Readback
\* buffer, however it is used; and an operation recorded into the open list
\* that uses a Default buffer last used there as a write (copy destination or
\* unordered access) records, before its own command, exactly one transition
\* barrier for each change of state of that buffer, from the old state to the
\* new one.
C9_BarrierElision ==
    [][/\ \A i \in 1 .. Len(cmd_list') :
              IsBarrier(cmd_list'[i]) => strategy_(cmd_list'[i].buf) = "kDefault"
       /\ (/\ last_op'.name \in {"CopyBuffer", "DispatchComputeShader"}
           /\ result' = kSuccess
           /\ command_list_state_ = "kRecording")
          => (/\ Len(cmd_list') > Len(cmd_list)
              /\ SubSeq(cmd_list', 1, Len(cmd_list)) = cmd_list
              /\ ~IsBarrier(cmd_list'[Len(cmd_list')])
              /\ \A b \in Buffers :
                    (/\ strategy_(b) = "kDefault"
                     /\ resource_usage_map_[b].used
                     /\ resource_usage_map_[b].last_state \in WriteStates)
                    => TransitionBarriersOf(SubSeq(cmd_list', Len(cmd_list) + 1,
                                                   Len(cmd_list')), b)
                           = Transitions(resource_usage_map_[b].last_state,
                                         StatesUsed(last_op', b)))]_vars

\* One list in which the Upload buffer is a copy source and then a shader
\* resource, and the Default buffer a copy destination and then an unordered
\* access view, with its one transition barrier.
C9_UploadTwoStatesDefaultOneBarrier ==
    /\ command_list_state_ = "kRecording"
    /\ Len(cmd_list) = 3
    /\ cmd_list[1].op = "CopyResource" /\ cmd_list[1].src = "U" /\ cmd_list[1].buf = "D"
    /\ cmd_list[2].op = "TransitionBarrier" /\ cmd_list[2].buf = "D"
    /\ cmd_list[3].op = "Dispatch"
    /\ resource_usage_map_["U"].last_state = "NON_PIXEL_SHADER_RESOURCE"
    /\ resource_usage_map_["D"].last_state = "UNORDERED_ACCESS"

AnyZero(gc) == \E i \in 1 .. 3 : gc[i] = 0
AnyOver(gc) == \E i \in 1 .. 3 : gc[i] > UINT16_MAX

\* C10 as stated: DispatchComputeShader returns kFalse whenever a group count
\* is 0 and kErrorInvalidArgument whenever a group count exceeds 65535, and in
\* both cases changes nothing and does not wait.
C10_DispatchBounds ==
    [][last_op'.name = "DispatchComputeShader" =>
         /\ (AnyZero(last_op'.group_count) => result' = kFalse)
         /\ (AnyOver(last_op'.group_count) => result' = kErrorInvalidArgument)
         /\ (AnyZero(last_op'.group_count) \/ AnyOver(last_op'.group_count))
                => (devvars' = devvars /\ ~blocked')]_vars

\* C10: DispatchComputeShader returns kFalse whenever a group count is 0, and
\* kErrorInvalidArgument whenever no group count is 0 and one exceeds 65535;
\* in both cases it changes nothing and does not wait.
C10_DispatchBoundsZeroFirst ==
    [][last_op'.name = "DispatchComputeShader" =>
         /\ (AnyZero(last_op'.group_count) => result' = kFalse)
         /\ (~AnyZero(last_op'.group_count) /\ AnyOver(last_op'.group_count)
                => result' = kErrorInvalidArgument)
         /\ (AnyZero(last_op'.group_count) \/ AnyOver(last_op'.group_count))
                => (devvars' = devvars /\ ~blocked')]_vars

\* A dispatch with one group count 0 and another above the limit, while a
\* submitted list is executing.
C10_ZeroAndTooLarge ==
    /\ last_op.name = "DispatchComputeShader"
    /\ AnyZero(last_op.group_count)
    /\ AnyOver(last_op.group_count)
    /\ result = kFalse
    /\ command_list_state_ = "kExecuting"

\* C11: an operation that returns kErrorInvalidArgument has had no side
\* effect: command-list state, submitted fence value, usage tracker, both
\* descriptor-heap cursors, bindings, mapped flags and the recorded command
\* stream are what they were before the call.
C11_EagerValidation ==
    [][(last_op'.name # "GpuComplete" /\ result' = kErrorInvalidArgument)
       => UNCHANGED <<command_list_state_, submitted_fence_value_, resource_usage_map_,
                      vis_next, invis_next, cbv_bindings_, srv_bindings_, uav_bindings_,
                      is_user_mapped_, cmd_list, list_closed, gpu_queue>>]_vars

\* The length argument of an operation that has one is zero.
ZeroLength(op) ==
    CASE op.name \in {"ReadBufferToMemory", "CopyBufferRegion", "ClearBufferToUintValues",
                      "ClearBufferToFloatValues"} -> op.range.count = 0
      [] op.name = "WriteMemoryToBuffer" -> op.data = <<>>
      [] op.name = "DispatchComputeShader" -> AnyZero(op.group_count)
      [] OTHER -> FALSE

\* C12: a zero-length operation whose other arguments are valid returns kFalse,
\* records no command and changes no state.
C12_ZeroLengthNoOp ==
    [][ZeroLength(last_op') =>
           (result' = kFalse /\ devvars' = devvars /\ read_out' = <<>> /\ ~blocked')]_vars

BoundInUavSlot(buf) == \E t \in DOMAIN uav_bindings_ : uav_bindings_[t].buffer = buf

\* C13: MapBuffer on a buffer held in a read-write binding slot returns
\* kErrorInvalidArgument and leaves it unmapped; destroying a buffer held in
\* any binding slot is a contract violation: WaitForBufferUnused returns
\* kErrorInvalidArgument and the assertion of the destructor fails.
C13_MutualExclusion ==
    [][/\ (last_op'.name = "MapBuffer" /\ BoundInUavSlot(last_op'.buf))
          => (result' = kErrorInvalidArgument /\ ~is_user_mapped_'[last_op'.buf])
       /\ (last_op'.name = "DestroyBuffer" /\ IsBufferBound(Dev, last_op'.buf))
          => (result' = kErrorInvalidArgument /\ asserted')]_vars

\* MapBuffer for writing, called on the CPU-writable buffer W while it is bound
\* for unordered access.
C13_MapOfBoundRWBuffer ==
    /\ last_op.name = "MapBuffer"
    /\ last_op.buf = "W"
    /\ last_op.data = {"CpuSequentialWrite"}
    /\ BoundInUavSlot("W")
    /\ result = kErrorInvalidArgument

\* C14: in no reachable state is a buffer user-mapped and at the same time held
\* in a constant, read-only or read-write binding slot (binding a mapped buffer
\* and mapping a bound buffer are both rejected), and no buffer is destroyed
\* while it is user-mapped.
C14_MappedExcludesBoundAndDestroyed ==
    \A buf \in Buffers :
        is_user_mapped_[buf] => (buf \in live_buffers /\ ~IsBufferBound(Dev, buf))

CmdRefers(c, buf) == c.buf = buf \/ c.src = buf \/ \E u \in c.uavs : u.buffer = buf
QueueRefers(queue, buf) ==
    \E i \in DOMAIN queue : \E j \in DOMAIN queue[i].cmds : CmdRefers(queue[i].cmds[j], buf)

\* C15: destroying a buffer that has an entry in the usage tracker first drives
\* the state to Idle with an infinite wait, so the buffer is released only
\* after the fence of every list that referenced it has been reached, and no
\* tracker entry refers to it afterwards; destroying a buffer with no tracker
\* entry causes no state transition.
C15_DestroyBufferWaits ==
    [][last_op'.name = "DestroyBuffer" =>
          IF resource_usage_map_[last_op'.buf].used
          THEN /\ command_list_state_' = "kNone"
               /\ fence_completed' >= submitted_fence_value_'
               /\ ~QueueRefers(gpu_queue', last_op'.buf)
               /\ ~resource_usage_map_'[last_op'.buf].used
          ELSE command_list_state_' = command_list_state_]_vars

\* C16: destroying the device from any command-list state first drives the
\* state to Idle with an infinite wait: no submitted list is unfinished when
\* the GPU objects are released, and the live buffer count is checked to be
\* zero after that.
C16_DestroyDeviceWaits ==
    [][last_op'.name = "DestroyDevice" =>
          /\ command_list_state_' = "kNone"
          /\ fence_completed' >= submitted_fence_value_'
          /\ gpu_queue' = <<>>
          /\ (buffer_count_ # 0 => asserted')]_vars

\* C17: for every flag combination that creation accepts, the strategy is
\* Default if ShaderRWResource is set, otherwise Upload if CpuSequentialWrite
\* is set, otherwise Readback if CpuRead is set, otherwise Default; it is never
\* kNone, and the buffer has a persistently mapped pointer exactly when the
\* strategy is Upload or Readback.
C17_StrategyFromFlags ==
    created.out =>
        /\ created.strategy =
               (IF "ShaderRWResource" \in created.desc.flags THEN "kDefault"
                ELSE IF "CpuSequentialWrite" \in created.desc.flags THEN "kUpload"
                ELSE IF "CpuRead" \in created.desc.flags THEN "kReadback"
                ELSE "kDefault")
        /\ created.strategy # "kNone"
        /\ created.persistently_mapped_ptr_ <=> created.strategy \in {"kUpload", "kReadback"}

\* A buffer with both ShaderRWResource and CpuSequentialWrite was created: its
\* strategy is Default and it has no mapped pointer.
C17_CreatedRWWithCpuWrite ==
    /\ last_op.name = "CreateBufferFromMemory"
    /\ created.out
    /\ {"ShaderRWResource", "CpuSequentialWrite"} \subseteq created.desc.flags
    /\ created.strategy = "kDefault"
    /\ ~created.persistently_mapped_ptr_

RejectedDesc(desc) ==
    \/ desc.flags \cap (kBufferUsageMaskCpu \cup kBufferUsageMaskCopy
                            \cup kBufferUsageMaskShader) = {}
    \/ Cardinality(desc.flags \cap kBufferUsageMaskCpu) > 1
    \/ Cardinality(desc.flags \cap kBufferTypeMask) > 1
    \/ desc.size = 0
    \/ desc.size % 4 # 0
    \/ (ElementSizeOf(desc) > 0 /\ desc.size % ElementSizeOf(desc) # 0)
    \/ ("CpuRead" \in desc.flags
           /\ desc.flags \cap (kBufferUsageMaskShader \cup {"CopySrc"}) # {})
    \/ ({"CpuSequentialWrite", "CopyDst"} \subseteq desc.flags
           /\ "ShaderRWResource" \notin desc.flags)

\* C18: buffer creation returns kErrorInvalidArgument, outputs a null buffer
\* and leaves the live buffer count unchanged whenever no usage flag is set,
\* more than one CPU-access flag or more than one type flag is set, the size is
\* 0 or not a multiple of 4 or not a multiple of the element size, CpuRead is
\* combined with a shader-usage flag or CopySrc, or CpuSequentialWrite without
\* ShaderRWResource is combined with CopyDst.
C18_CreationRejects ==
    [][(last_op'.name = "CreateBufferFromMemory" /\ RejectedDesc(created'.desc))
          => /\ result' = kErrorInvalidArgument
             /\ ~created'.out
             /\ buffer_count_' = buffer_count_]_vars

\* Creation of an otherwise valid Upload buffer with CopyDst was rejected.
C18_RejectedUploadWithCopyDst ==
    /\ last_op.name = "CreateBufferFromMemory"
    /\ created.desc = [flags |-> {"CpuSequentialWrite", "CopyDst", "ByteAddress"}, size |-> 8,
                       element_bits |-> 0, structure_size |-> 0]
    /\ result = kErrorInvalidArgument
    /\ ~created.out
    /\ buffer_count_ = Cardinality(live_buffers)

\* C19: CreateBufferFromMemory with non-empty initial data succeeds only when
\* the derived strategy is Upload, and the buffer then starts with the initial
\* data; for every flag combination whose strategy is not Upload it returns
\* kErrorInvalidArgument with no assertion failure and no write through a
\* null mapping (a failure of the native resource creation aside).
C19_InitialDataOnlyForUpload ==
    [][(/\ last_op'.name = "CreateBufferFromMemory"
        /\ last_op'.data # <<>>
        /\ result' # kErrorFail)
          => /\ Succeeded(result')
                  => (ChooseStrategy(created'.desc.flags) = "kUpload"
                         /\ created'.written = last_op'.data)
             /\ ChooseStrategy(created'.desc.flags) # "kUpload"
                  => (result' = kErrorInvalidArgument /\ ~asserted' /\ ~created'.null_write)]_vars

\* C20: a successful WriteMemoryToBuffer(src, dst, dst_byte_offset) makes the
\* bytes [dst_byte_offset, dst_byte_offset + src.size) of dst equal to src and
\* leaves every other byte of dst unchanged, for an Upload destination and,
\* once the list has executed, for a Default destination, at every in-range
\* offset.
C20_WriteAtOffset ==
    [][(last_op'.name = "WriteMemoryToBuffer" /\ result' = kSuccess)
          => MemAfterGpu'[last_op'.buf] =
                 MemWrite(MemAfterGpu, last_op'.buf, last_op'.off, last_op'.data)[last_op'.buf]]_vars

\* The states operation op uses buffer b in, in the order of use, for every
\* operation that records a GPU command.
AllStatesUsed(op, b) ==
    CASE op.name = "CopyBufferRegion" ->
             (IF op.src = b THEN <<"COPY_SOURCE">> ELSE <<>>)
                 \o (IF op.buf = b THEN <<"COPY_DEST">> ELSE <<>>)
      [] op.name = "WriteMemoryToBuffer" ->
             IF op.buf = b /\ strategy_(b) = "kDefault" THEN <<"COPY_DEST">> ELSE <<>>
      [] op.name \in {"ClearBufferToUintValues", "ClearBufferToFloatValues"} ->
             IF op.buf = b THEN <<"UNORDERED_ACCESS">> ELSE <<>>
      [] OTHER -> StatesUsed(op, b)

RecordingOps ==
    {"CopyBuffer", "CopyBufferRegion", "WriteMemoryToBuffer", "ClearBufferToUintValues",
     "ClearBufferToFloatValues", "DispatchComputeShader"}

\* The tracker entry and the barriers that a sequence of uses of buffer b in
\* the given states must produce, starting from the given entry.
RECURSIVE ExpectedUse(_, _, _)
ExpectedUse(b, entry, states) ==
    IF states = <<>> THEN [entry |-> entry, barriers |-> <<>>]
    ELSE
    LET state == Head(states)
        barrier ==
            IF ~entry.used \/ strategy_(b) # "kDefault" THEN <<>>
            ELSE IF state # entry.last_state
            THEN <<[op |-> "TransitionBarrier", before |-> entry.last_state, after |-> state]>>
            ELSE IF state = "UNORDERED_ACCESS"
            THEN <<[op |-> "UAVBarrier", before |-> "", after |-> ""]>>
            ELSE <<>>
        flags == IF state \in WriteStates THEN {"Read", "Write"} ELSE {"Read"}
        Rest(r) == [entry |-> r.entry, barriers |-> barrier \o r.barriers]
    IN Rest(ExpectedUse(b, [used |-> TRUE, flags |-> entry.flags \cup flags,
                            last_state |-> state], Tail(states)))

BarriersOf(cmds, b) ==
    LET Is(c) == IsBarrier(c) /\ c.buf = b
        sel == SelectSeq(cmds, Is)
    IN [i \in 1 .. Len(sel) |-> [op |-> sel[i].op, before |-> sel[i].before,
                                 after |-> sel[i].after]]

\* The list and the tracker entry an operation starts from: the open list, or
\* a fresh list when the operation first has to return to Recording.
OpenCmds == IF command_list_state_ = "kRecording" THEN cmd_list ELSE <<>>
OpenEntry(b) == IF command_list_state_ = "kRecording" THEN resource_usage_map_[b] ELSE NoUsage

\* C21: the first use of a buffer in a list records its flags and state and
\* emits no barrier; a later use of a Default buffer emits one transition
\* barrier from the last recorded state to the requested state when they
\* differ, one UAV barrier when both are the unordered-access state, and
\* nothing otherwise; a later use of a non-Default buffer emits nothing; the
\* flags become the union of the old and new flags and the last state the
\* requested state.
C21_UseBufferBarriers ==
    [][(last_op'.name \in RecordingOps /\ result' = kSuccess)
          => /\ SubSeq(cmd_list', 1, Len(OpenCmds)) = OpenCmds
             /\ \A b \in Buffers :
                    LET e == ExpectedUse(b, OpenEntry(b), AllStatesUsed(last_op', b)) IN
                    /\ resource_usage_map_'[b] = e.entry
                    /\ BarriersOf(SubSeq(cmd_list', Len(OpenCmds) + 1, Len(cmd_list')), b)
                           = e.barriers]_vars

\* Two clears of the Default buffer D in one list: the second one is preceded
\* by a UAV barrier and the entry of D stays in the unordered-access state.
C21_SecondClearAfterUavBarrier ==
    /\ last_op.name = "ClearBufferToUintValues"
    /\ result = kSuccess
    /\ command_list_state_ = "kRecording"
    /\ Len(cmd_list) = 3
    /\ cmd_list[1].op = "ClearUnorderedAccessView"
    /\ cmd_list[2].op = "UAVBarrier" /\ cmd_list[2].buf = "D"
    /\ cmd_list[3].op = "ClearUnorderedAccessView"
    /\ resource_usage_map_["D"] =
           [used |-> TRUE, flags |-> {"Read", "Write"}, last_state |-> "UNORDERED_ACCESS"]

CmdWrites(c, b) ==
    \/ c.op \in {"CopyResource", "CopyBufferRegion", "WriteBufferImmediate",
                 "ClearUnorderedAccessView"} /\ c.buf = b
    \/ c.op = "Dispatch" /\ \E u \in c.uavs : u.buffer = b
CmdUses(c, b) == ~IsBarrier(c) /\ CmdRefers(c, b)

\* C22: for a Default buffer, between any two consecutive recorded uses of it
\* in the same command list of which the first is a write (copy destination,
\* immediate write, clear or unordered access), a barrier naming that buffer
\* is recorded before the second use, two consecutive copy-destination uses
\* included.
C22_BarrierAfterWrite ==
    \A b \in Buffers :
        strategy_(b) = "kDefault" =>
            \A i, j \in DOMAIN cmd_list :
                (/\ i < j
                 /\ CmdWrites(cmd_list[i], b)
                 /\ CmdUses(cmd_list[j], b)
                 /\ \A k \in (i + 1) .. (j - 1) : ~CmdUses(cmd_list[k], b))
                => \E k \in (i + 1) .. (j - 1) :
                       IsBarrier(cmd_list[k]) /\ cmd_list[k].buf = b

\* The operation passed through Idle: its lifecycle calls entered or left it.
ReachedIdle(trace) ==
    \E i \in DOMAIN trace : trace[i].to # trace[i].from /\ "kNone" \in {trace[i].from, trace[i].to}

\* C23: the usage tracker never crosses command-list boundaries: it is empty
\* whenever the state is Idle, every entry an operation leaves after it
\* passed through Idle belongs to a buffer that this operation used in the
\* new list, and the first use of a buffer in any list emits no barrier, however
\* the buffer was used in earlier lists.
C23_TrackerPerList ==
    /\ [](command_list_state_ = "kNone" => TrackerEmpty)
    /\ [][ReachedIdle(state_trace')
             => \A b \in Buffers :
                    /\ resource_usage_map_'[b].used => AllStatesUsed(last_op', b) # <<>>
                    /\ (last_op'.name \in RecordingOps /\ result' = kSuccess)
                           => BarriersOf(cmd_list', b)
                                  = ExpectedUse(b, NoUsage, AllStatesUsed(last_op', b)).barriers]_vars

\* The Default buffer D, cleared in an earlier list that has finished, is the
\* source of the first copy of a new list: no barrier precedes the copy.
C23_FirstUseInNewList ==
    /\ last_op.name = "CopyBuffer" /\ last_op.src = "D"
    /\ result = kSuccess
    /\ ReachedIdle(state_trace)
    /\ mem["D"][0] = 1
    /\ Len(cmd_list) = 1 /\ cmd_list[1].op = "CopyResource"
    /\ resource_usage_map_["D"] = [used |-> TRUE, flags |-> {"Read"}, last_state |-> "COPY_SOURCE"]

CallSucceeded(trace, fn) ==
    \E i \in DOMAIN trace : trace[i].fn = fn /\ trace[i].res = kSuccess /\ trace[i].to # trace[i].from
DescriptorIndices ==
    [class \in {"cbv", "srv", "uav"} |->
        [slot \in DOMAIN Bindings[class] |-> Bindings[class][slot].descriptor_index]]
AllDescriptorsUnset ==
    \A class \in {"cbv", "srv", "uav"} : \A slot \in DOMAIN Bindings[class] :
        Bindings[class][slot].descriptor_index = UINT32_MAX
DynamicCursorsReset ==
    vis_next = kStaticDescriptorCount /\ invis_next = kStaticDescriptorCount

\* C24 as stated: when the Executing->Idle sub-transition succeeds, then on
\* return in state Idle both descriptor heaps' dynamic cursors equal
\* kStaticDescriptorCount and every cached descriptor index is unset, and the
\* tracker and the shader usage set are empty.
C24_IdleResetsDescriptors ==
    [][(CallSucceeded(state_trace', "WaitForCommandExecution") /\ command_list_state_' = "kNone")
          => (/\ DynamicCursorsReset'
              /\ AllDescriptorsUnset'
              /\ TrackerEmpty'
              /\ shader_usage_set_' = {})]_vars

\* C24, amended: when the Executing->Idle sub-transition succeeds, then on
\* return in state Idle the tracker and the shader usage set are empty, while
\* the dynamic cursors and the cached descriptor indices are as they were; it
\* is the Idle->Recording sub-transition that resets them: an operation that
\* makes it and allocates no descriptor (a copy or an immediate write) returns
\* with both cursors at kStaticDescriptorCount and every cached index unset.
C24_RecordingResetsDescriptors ==
    [][/\ (CallSucceeded(state_trace', "WaitForCommandExecution")
              /\ command_list_state_' = "kNone")
          => (/\ TrackerEmpty'
              /\ shader_usage_set_' = {}
              /\ UNCHANGED <<vis_next, invis_next>>
              /\ DescriptorIndices' = DescriptorIndices)
       /\ (CallSucceeded(state_trace', "ResetCommandListForRecording")
              /\ last_op'.name \in {"CopyBuffer", "CopyBufferRegion", "WriteMemoryToBuffer"})
          => (DynamicCursorsReset' /\ AllDescriptorsUnset')]_vars

\* WaitForGPU has returned in state Idle after a list with a dispatch and a
\* clear: the tracker is empty, the cursors and a cached index are still set.
C24_IdleWithStaleDescriptors ==
    /\ last_op.name = "WaitForGPU"
    /\ result = kSuccess
    /\ command_list_state_ = "kNone"
    /\ CallSucceeded(state_trace, "WaitForCommandExecution")
    /\ TrackerEmpty
    /\ vis_next > kStaticDescriptorCount
    /\ invis_next > kStaticDescriptorCount
    /\ ~AllDescriptorsUnset

StaticIndex(class) == CASE class = "cbv" -> 0 [] class = "srv" -> 1 [] class = "uav" -> 2
BoundSlots ==
    { cs \in {"cbv", "srv", "uav"} \X (0 .. kMaxCBVCount - 1) :
        cs[2] \in DOMAIN Bindings[cs[1]] /\ Bindings[cs[1]][cs[2]].buffer # NULL }
\* The descriptor a slot's root argument points at is the one of the slot.
SlotDescriptorValid(class, slot) ==
    LET binding == Bindings[class][slot]
        index == RootArgument(class, binding)
    IN IF binding.buffer = NULL
       THEN /\ index = StaticIndex(class)
            /\ vis_heap[index] = Descriptor(class, NULL, kEmptyRange)
       ELSE /\ index \in kStaticDescriptorCount .. vis_next - 1
            /\ index \in DOMAIN vis_heap
            /\ vis_heap[index] = Descriptor(class, binding.buffer, binding.byte_range)
\* A cached index is one of the dynamic indices handed out since the last reset.
CachedIndicesCurrent ==
    \A class \in {"cbv", "srv", "uav"} : \A slot \in DOMAIN Bindings[class] :
        LET index == Bindings[class][slot].descriptor_index
        IN index # UINT32_MAX
               => /\ Bindings[class][slot].buffer # NULL
                  /\ index \in kStaticDescriptorCount .. vis_next - 1
                  /\ index \in DOMAIN vis_heap

\* C25: whenever a dispatch is recorded, each slot is given either the static
\* null descriptor of its own kind (when unbound) or a dynamic index in
\* [kStaticDescriptorCount, shader-visible cursor) whose descriptor was written
\* for the slot's current (buffer, range) since the last Idle->Recording
\* reset; no two bound slots share an index, the dynamic cursor never falls
\* below kStaticDescriptorCount, and every cached index is one handed out since
\* the last reset.
C25_NoStaleDescriptor ==
    /\ [](vis_next >= kStaticDescriptorCount)
    /\ [](invis_next >= kStaticDescriptorCount)
    /\ []CachedIndicesCurrent
    /\ [][(last_op'.name = "DispatchComputeShader" /\ result' = kSuccess)
              => /\ \A class \in {"cbv", "srv", "uav"} : \A slot \in DOMAIN Bindings[class] :
                        SlotDescriptorValid(class, slot)'
                 /\ \A cs1, cs2 \in BoundSlots' :
                        cs1 # cs2 => RootArgument(cs1[1], Bindings[cs1[1]][cs1[2]])'
                                         # RootArgument(cs2[1], Bindings[cs2[1]][cs2[2]])']_vars

\* A dispatch that reopened the list after an earlier one had completed: the
\* constant slot and the read-only slot got fresh descriptors, the read-write
\* slot the static null descriptor.
C25_DispatchAfterReset ==
    /\ last_op.name = "DispatchComputeShader"
    /\ result = kSuccess
    /\ submitted_fence_value_ >= 1
    /\ CallSucceeded(state_trace, "ResetCommandListForRecording")
    /\ cbv_bindings_[0].buffer # NULL
    /\ srv_bindings_[0].buffer # NULL
    /\ uav_bindings_[0].buffer = NULL
    /\ {cbv_bindings_[0].descriptor_index, srv_bindings_[0].descriptor_index}
           = {kStaticDescriptorCount, kStaticDescriptorCount + 1}

EnsureReturned == last_op.name = "EnsureCommandListState"
SubTransitions(trace) == { i \in DOMAIN trace : trace[i].to # trace[i].from }

\* C26: for every current state, every desired state and every timeout, if
\* EnsureCommandListState returns kSuccess then command_list_state_ equals
\* desired on return; when the state already equals desired it performs no
\* sub-transition; and it performs no sub-transition from the desired state on.
C26_EnsureReachesDesired ==
    [][EnsureReturned'
          => /\ result' = kSuccess => command_list_state_' = last_op'.desired
             /\ command_list_state_ = last_op'.desired
                    => (state_trace' = <<>> /\ command_list_state_' = command_list_state_)
             /\ \A i \in SubTransitions(state_trace') :
                    state_trace'[i].from # last_op'.desired]_vars

\* The operation just returned is one that records a GPU command.
GpuRecordingOp(op) ==
    /\ op.name \in RecordingOps
    /\ op.name = "WriteMemoryToBuffer" => strategy_(op.buf) = "kDefault"

\* C27: every call of UseBuffer and of UpdateRootArguments happens while
\* command_list_state_ = Recording (their state assertions never fail), so
\* every copy, clear, dispatch and immediate-write command is appended only to
\* an open list, also for WriteMemoryToBuffer to a Default buffer with
\* kCommandFlagDontWait while the previous list is still Executing; after any
\* successful copy/clear/dispatch/immediate-write call the state is Recording.
C27_RecordOnlyWhileRecording ==
    [][GpuRecordingOp(last_op')
          => /\ ~asserted'
             /\ result' = kSuccess
                    => (command_list_state_' = "kRecording" /\ ~list_closed')]_vars

\* C28: at the moment a GPU command is recorded, every Default-strategy buffer
\* it touches has, as its tracker last_state, the state required by each role
\* the buffer plays in that command, also when the buffer is bound in two
\* binding classes at once or is both source and destination of a copy.
C28_StateForEveryRole ==
    [][(GpuRecordingOp(last_op') /\ result' = kSuccess)
          => \A b \in Buffers :
                 strategy_(b) = "kDefault"
                     => \A i \in DOMAIN AllStatesUsed(last_op', b) :
                            /\ resource_usage_map_'[b].used
                            /\ resource_usage_map_'[b].last_state
                                   = AllStatesUsed(last_op', b)[i]]_vars

\* A dispatch of the shader is in the list being recorded or executed, or in a
\* submitted list the GPU has not finished.
UnfinishedListUses(shader) ==
    \/ /\ command_list_state_ # "kNone"
       /\ \E i \in DOMAIN cmd_list : cmd_list[i].shader = shader
    \/ \E i \in DOMAIN gpu_queue : \E j \in DOMAIN gpu_queue[i].cmds :
           gpu_queue[i].cmds[j].shader = shader

\* C29: a shader used by a dispatch of a command list that has not yet
\* completed is not released before that list completes: destroying such a
\* shader first drives the state to Idle; every shader referenced by an
\* unfinished list is a member of the shader usage set until the list returns
\* to Idle.
C29_ShaderOutlivesList ==
    /\ [](\A shader \in live_shaders :
             UnfinishedListUses(shader) => shader \in shader_usage_set_)
    /\ [][\A shader \in Shaders :
              (last_op'.name = "DestroyShader" /\ last_op'.buf = shader
                  /\ UnfinishedListUses(shader))
                  => /\ command_list_state_' = "kNone"
                     /\ ~UnfinishedListUses(shader)']_vars

\* The commands of a list other than the barriers.
NonBarrier(cmds) ==
    LET Is(c) == c.op \notin {"TransitionBarrier", "UAVBarrier"} IN SelectSeq(cmds, Is)

UsageFlagOfClass(class) ==
    CASE class = "cbv" -> "ShaderConstant"
      [] class = "srv" -> "ShaderResource"
      [] class = "uav" -> "ShaderRWResource"
\* What C31 requires of the arguments of a successful Bind call; range is the
\* normalised range, its end taken as an integer.
BindArgumentsValid(class, slot, buf, range) ==
    LET alignment == IF ElementSizeOf(BufferDesc(buf)) = 0 THEN 4
                     ELSE ElementSizeOf(BufferDesc(buf))
    IN /\ slot < SlotCount(class)
       /\ class # "cbv" => Cardinality(GetFlags(buf) \cap kBufferTypeMask) = 1
       /\ range.first % alignment = 0
       /\ range.count % alignment = 0
       /\ range.count > 0
       /\ range.first < GetSize(buf)
       /\ range.first + range.count <= GetSize(buf)
       /\ UsageFlagOfClass(class) \in GetFlags(buf)
       /\ class = "cbv" => (range.first % 256 = 0 /\ range.count % 256 = 0)
BindReturned == last_op.name \in BindOps

\* C31: Bind* with a non-null buffer succeeds only if the slot is in bounds,
\* exactly one structural kind is set (read-only, read-write), offset and
\* length are multiples of the element size, length > 0, offset < size,
\* offset + length <= size, the buffer has the usage flag of the class, and
\* (constant buffers) offset and length are multiples of 256; on success the
\* slot holds the new (buffer, normalised range) with the descriptor index
\* unset; on kErrorInvalidArgument the slot is what it was; Bind* never changes
\* command-list state, tracker or heap cursors.
C31_BindValidation ==
    [][BindReturned'
          => /\ UNCHANGED <<command_list_state_, resource_usage_map_, vis_next, invis_next>>
             /\ result' = kErrorInvalidArgument => Bindings' = Bindings
             /\ (last_op'.buf # NULL /\ result' = kSuccess)
                    => /\ BindArgumentsValid(ClassOf(last_op'), last_op'.slot, last_op'.buf,
                                             NormalizedRange(last_op'.buf, last_op'.range))
                       /\ Bindings'[ClassOf(last_op')][last_op'.slot]
                              = NewBinding(last_op'.buf,
                                           NormalizedRange(last_op'.buf, last_op'.range))]_vars

\* C32: Bind*(slot, null) on a slot that holds no buffer (never bound, already
\* unbound, cleared by ResetAllBindings) returns kFalse; on a slot that holds a
\* buffer it returns kSuccess and leaves the slot with no buffer and an unset
\* descriptor index.
C32_UnbindIdempotent ==
    [][(BindReturned' /\ last_op'.buf = NULL /\ last_op'.slot < SlotCount(ClassOf(last_op')))
          => IF Bindings[ClassOf(last_op')][last_op'.slot].buffer = NULL
             THEN result' = kFalse
             ELSE /\ result' = kSuccess
                  /\ Bindings'[ClassOf(last_op')][last_op'.slot].buffer = NULL
                  /\ Bindings'[ClassOf(last_op')][last_op'.slot].descriptor_index
                         = UINT32_MAX]_vars

\* A byte range lies inside a buffer of the given size; a count of SIZE_MAX
\* stands for "to the end of the buffer".  The sums are sums of integers.
RangeInside(range, size) ==
    IF range.count = SIZE_MAX THEN range.first <= size
    ELSE range.first + range.count <= size

\* C33: MapBuffer returns kErrorInvalidArgument and leaves the buffer unmapped
\* for every byte range that is not inside the buffer, in particular for a
\* full-range request whose first offset is greater than the buffer size and
\* for explicit ranges whose first + count wraps around.
C33_MapOutOfRange ==
    [][(last_op'.name = "MapBuffer" /\ ~is_user_mapped_[last_op'.buf]
           /\ ~RangeInside(last_op'.range, GetSize(last_op'.buf)))
          => (result' = kErrorInvalidArgument /\ ~is_user_mapped_'[last_op'.buf])]_vars

\* The number of bytes a range inside a buffer of the given size stands for.
CountOf(range, size) == IF range.count = SIZE_MAX THEN size - range.first ELSE range.count

\* C34: CopyBufferRegion returns kErrorInvalidArgument and records no copy
\* whenever the source range is not inside the source buffer or
\* [dst_byte_offset, dst_byte_offset + count) is not inside the destination
\* buffer, including a full-range source whose first offset exceeds the source
\* size and counts or offsets so large that a sum wraps around.
C34_CopyRegionOutOfRange ==
    [][(/\ last_op'.name = "CopyBufferRegion"
        /\ \/ ~RangeInside(last_op'.range, GetSize(last_op'.src))
           \/ last_op'.off + CountOf(last_op'.range, GetSize(last_op'.src))
                  > GetSize(last_op'.buf))
          => (result' = kErrorInvalidArgument /\ cmd_list' = cmd_list)]_vars

AllSlots == {cs \in {"cbv", "srv", "uav"} \X (0 .. kMaxCBVCount - 1) : cs[2] < SlotCount(cs[1])}
ClearOps == {"ClearBufferToUintValues", "ClearBufferToFloatValues"}

\* C35: successive AllocateDynamic calls return the cursor values from
\* kStaticDescriptorCount on, each exactly once, up to kMaxDescriptorCount-1;
\* once the cursor equals kMaxDescriptorCount every further call returns
\* kErrorTooManyObjects and changes neither the cursor nor the output index;
\* ClearDynamic sets the cursor back to kStaticDescriptorCount.  In every
\* reachable state kStaticDescriptorCount <= cursor <= kMaxDescriptorCount for
\* both heaps, and the CPU-only cursor never exceeds the GPU-visible one.
C35_HeapAllocator ==
    /\ [](/\ kStaticDescriptorCount <= invis_next
          /\ invis_next <= vis_next
          /\ vis_next <= kMaxDescriptorCount)
    /\ [][LET reset == CallSucceeded(state_trace', "ResetCommandListForRecording")
              visible == IF reset THEN kStaticDescriptorCount ELSE vis_next
              invisible == IF reset THEN kStaticDescriptorCount ELSE invis_next
              fresh == {cs \in AllSlots :
                          /\ Bindings'[cs[1]][cs[2]].descriptor_index # UINT32_MAX
                          /\ reset \/ Bindings[cs[1]][cs[2]].descriptor_index = UINT32_MAX}
              wanting == {cs \in AllSlots :
                            /\ Bindings[cs[1]][cs[2]].buffer # NULL
                            /\ reset \/ Bindings[cs[1]][cs[2]].descriptor_index = UINT32_MAX}
          IN /\ vis_next' \in visible .. kMaxDescriptorCount
             /\ invis_next' \in invisible .. kMaxDescriptorCount
             /\ last_op'.name = "DispatchComputeShader"
                    => /\ {Bindings'[cs[1]][cs[2]].descriptor_index : cs \in fresh}
                              = visible .. vis_next' - 1
                       /\ Cardinality(fresh) = vis_next' - visible
                       /\ invis_next' = invisible
                       /\ (wanting # {} /\ visible = kMaxDescriptorCount)
                              => /\ result' = kErrorTooManyObjects
                                 /\ fresh = {}
                                 /\ DescriptorIndices' = DescriptorIndices
             /\ last_op'.name \in ClearOps
                    => /\ vis_next' - visible = invis_next' - invisible
                       /\ vis_next' - visible <= 1
                       /\ result' = kSuccess
                              => /\ vis_next' = visible + 1
                                 /\ vis_heap'[visible].buffer = last_op'.buf
                       /\ visible = kMaxDescriptorCount
                              => /\ result' = kErrorTooManyObjects
                                 /\ UNCHANGED <<vis_next, invis_next>>
             /\ last_op'.name \notin ClearOps \cup {"DispatchComputeShader"}
                    => (vis_next' = visible /\ invis_next' = invisible)]_vars

\* A dispatch that needed a descriptor for its read-only slot found the
\* shader-visible heap full.
C35_HeapExhausted ==
    /\ last_op.name = "DispatchComputeShader"
    /\ result = kErrorTooManyObjects
    /\ vis_next = kMaxDescriptorCount
    /\ invis_next < kMaxDescriptorCount
    /\ srv_bindings_[0].buffer = "U"
    /\ srv_bindings_[0].descriptor_index = UINT32_MAX

\* The Recording->Executing sub-transitions of a call.
Submissions(trace) ==
    {i \in DOMAIN trace : /\ trace[i].fn = "ExecuteRecordedCommands"
                          /\ trace[i].from = "kRecording" /\ trace[i].to = "kExecuting"}

\* C36: submitted_fence_value_ starts at 0, increases by exactly 1 on each
\* Recording->Executing submission and changes at no other time; the fence's
\* completed value never exceeds it; and whenever the state is Executing, a
\* fence signal for exactly submitted_fence_value_ has been enqueued after the
\* submitted list.
C36_FenceValueCountsSubmissions ==
    /\ submitted_fence_value_ = 0
    /\ [](fence_completed <= submitted_fence_value_)
    /\ [](command_list_state_ = "kExecuting"
             => \/ fence_completed >= submitted_fence_value_
                \/ /\ gpu_queue # <<>>
                   /\ gpu_queue[Len(gpu_queue)].fence = submitted_fence_value_)
    /\ [][submitted_fence_value_'
              = submitted_fence_value_ + Cardinality(Submissions(state_trace'))]_vars

\* The calls that reach a buffer's memory through a CPU mapping.
CpuAccess(op) ==
    \/ op.name \in {"MapBuffer", "ReadBufferToMemory"}
    \/ op.name = "WriteMemoryToBuffer" /\ strategy_(op.buf) = "kUpload"

\* The usage tracker holds an access of the GPU to op.buf that the call has
\* to wait for.
HasConflictingEntry(op) ==
    /\ resource_usage_map_[op.buf].used
    /\ (resource_usage_map_[op.buf].flags \cap ConflictOf(op)) # {}

\* C37: MapBuffer, ReadBufferToMemory and WriteMemoryToBuffer to an Upload
\* destination, called on a buffer with no conflicting entry in the usage
\* tracker, leave the command-list state, the submitted fence value, the
\* tracker, the bindings and the descriptor cursors unchanged: they neither
\* submit the pending list nor wait on the fence, even while other buffers
\* have pending GPU work.
C37_NoRedundantSync ==
    [][(CpuAccess(last_op') /\ ~HasConflictingEntry(last_op'))
           => /\ UNCHANGED <<command_list_state_, submitted_fence_value_, resource_usage_map_,
                             cbv_bindings_, srv_bindings_, uav_bindings_, vis_next, invis_next,
                             cmd_list, list_closed, gpu_queue, fence_completed>>
              /\ state_trace' = <<>>]_vars

\* C has just been mapped while the list that copies U to R is in flight.
C37_MapBesidePendingWork ==
    /\ last_op.name = "MapBuffer" /\ last_op.buf = "C" /\ result = kSuccess
    /\ is_user_mapped_["C"]
    /\ command_list_state_ = "kExecuting" /\ fence_completed < submitted_fence_value_
    /\ resource_usage_map_["U"].used /\ resource_usage_map_["R"].used
    /\ state_trace = <<>>

\* The calls that block until the GPU is done where they have to.
BlockingCall(op) ==
    \/ op.name = "WaitForGPU" /\ op.timeout = kTimeoutInfinite
    \/ /\ op.name \in {"CopyBuffer", "ClearBufferToUintValues", "DispatchComputeShader",
                        "MapBuffer", "ReadBufferToMemory", "WriteMemoryToBuffer"}
       /\ op.flags # kCommandFlagDontWait

\* C38: when the GPU eventually completes every submitted list and no native
\* call fails, every blocking call (WaitForGPU with the infinite timeout,
\* copy, clear, dispatch, map, read and write without kCommandFlagDontWait)
\* that sleeps on the fence eventually returns, and WaitForGPU with the
\* infinite timeout returns kSuccess with the state Idle from any state: the
\* state machine is never stuck in Executing.
C38_BlockingCallsReturn ==
    /\ [](blocked => BlockingCall(last_op) /\ command_list_state_ = "kExecuting")
    /\ [][(last_op'.name = "WaitForGPU" /\ last_op'.timeout = kTimeoutInfinite /\ ~blocked')
              => (result' = kSuccess /\ command_list_state_' = "kNone")]_vars
    /\ (blocked ~> ~blocked)

\* An infinite WaitForGPU that slept while the GPU ran has returned.
C38_WaitSleptAndReturned ==
    /\ last_op.name = "WaitForGPU" /\ last_op.timeout = kTimeoutInfinite
    /\ ~blocked /\ result = kSuccess /\ command_list_state_ = "kNone"
    /\ state_trace # <<>> /\ state_trace[1].fn = "WaitForSingleObject"
    /\ fence_completed = submitted_fence_value_

\* C39: SubmitPendingCommands moves Recording to Executing with one
\* submission and the fence value one higher, does nothing in Executing and
\* Idle, and returns kSuccess in all three states; a second call in a row
\* changes nothing more; the tracker, the bindings and the descriptor cursors
\* are never touched.
C39_SubmitIdempotent ==
    /\ [](\A o \in NoFail :
             LET once == SubmitPendingCommands(Dev, o)
                 twice == SubmitPendingCommands([once.d EXCEPT !.trace = <<>>], o)
             IN /\ twice.res = kSuccess
                /\ [twice.d EXCEPT !.trace = <<>>] = [once.d EXCEPT !.trace = <<>>])
    /\ [][last_op'.name = "SubmitPendingCommands"
              => /\ result' = kSuccess
                 /\ UNCHANGED <<resource_usage_map_, cbv_bindings_, srv_bindings_, uav_bindings_,
                                vis_next, invis_next, vis_heap, is_user_mapped_, mem,
                                fence_completed>>
                 /\ IF command_list_state_ = "kRecording"
                    THEN /\ command_list_state_' = "kExecuting"
                         /\ submitted_fence_value_' = submitted_fence_value_ + 1
                         /\ gpu_queue' = Append(gpu_queue, [cmds |-> cmd_list,
                                                            fence |-> submitted_fence_value_ + 1])
                    ELSE UNCHANGED devvars]_vars

\* A list with a dispatch on a bound buffer has just been submitted.
C39_SubmittedWithBindings ==
    /\ last_op.name = "SubmitPendingCommands" /\ result = kSuccess
    /\ command_list_state_ = "kExecuting"
    /\ Len(state_trace) = 1 /\ state_trace[1].from = "kRecording"
    /\ srv_bindings_[0].buffer = "U"
    /\ vis_next > kStaticDescriptorCount
    /\ resource_usage_map_["U"].used

====
